---------------------------- MODULE Spec2Model ----------------------------
(***************************************************************************)
(* A model of @andamio/core's hashing utilities (slt-hash.ts,              *)
(* task-hash.ts, commitment-hash.ts).  Every exported function is a pure   *)
(* function; a call is modelled as one action that records the operation,  *)
(* its argument and what it returned (or that it threw).                   *)
(*                                                                         *)
(* Representation.                                                         *)
(*   Uint8Array  : a sequence of naturals 0..255                           *)
(*   JS string   : a sequence of UTF-16 code units 0..65535                *)
(*   call result : [threw, bytes, error]                                   *)
(* op is the function called ("idle" before the call), arg its argument,   *)
(* local the local variables the call left behind, ret what it returned.   *)
(***************************************************************************)
EXTENDS Integers, Sequences, FiniteSets, TLC

VARIABLES op, arg, local, ret

vars == <<op, arg, local, ret>>

--------------------------------------------------------------------------
(* Bounds of the model.                                                    *)

\* buffers of every length 0..MaxSmallLen are tried
MaxSmallLen == 66
\* fill patterns 0..MaxSeed of the generated buffers
MaxSeed == 1

--------------------------------------------------------------------------
(* Generic helpers for the JavaScript runtime.                             *)

Min(a, b) == IF a <= b THEN a ELSE b

\* a function returning normally with a Uint8Array
Return(b) == [threw |-> FALSE, bytes |-> b, error |-> ""]

\* throw new Error(msg)
Throw(msg) == [threw |-> TRUE, bytes |-> <<>>, error |-> msg]

\* storing a number into a Uint8Array element keeps its low 8 bits
ToUint8(v) == v % 256

\* x >> k for a non-negative x below 2^31
ShiftRight(x, k) == x \div (2 ^ k)

\* x & 0xff for a non-negative x below 2^31
And255(x) == x % 256

\* TypedArray.prototype.subarray(begin, end): elements begin..end-1 (0-based)
subarray(buffer, begin, end) == SubSeq(buffer, begin + 1, end)

--------------------------------------------------------------------------
(* slt-hash.ts: the byte-string encoders.                                  *)

PLUTUS_CHUNK_SIZE == 64

\* mutant: the two length bytes of the 0x59 form are written little-endian
encodeCBORByteString_swapped(buffer) ==
    LET len == Len(buffer) IN
    IF len <= 23
      THEN Return([i \in 1..(1 + len) |-> IF i = 1 THEN 64 + len ELSE buffer[i - 1]])
    ELSE IF len <= 255
      THEN Return([i \in 1..(2 + len) |->
                     IF i = 1 THEN 88
                     ELSE IF i = 2 THEN ToUint8(len)
                     ELSE buffer[i - 2]])
    ELSE IF len <= 65535
      THEN Return([i \in 1..(3 + len) |->
                     IF i = 1 THEN 89
                     ELSE IF i = 2 THEN ToUint8(And255(len))
                     ELSE IF i = 3 THEN ToUint8(ShiftRight(len, 8))
                     ELSE buffer[i - 3]])
    ELSE Throw("Byte string too long for CBOR encoding")

\* encodeCBORByteString: result = new Uint8Array(h + len); header; result.set(buffer, h)
encodeCBORByteString(buffer) ==
    LET len == Len(buffer) IN
    IF len <= 23
      THEN Return([i \in 1..(1 + len) |-> IF i = 1 THEN 64 + len ELSE buffer[i - 1]])
    ELSE IF len <= 255
      THEN Return([i \in 1..(2 + len) |->
                     IF i = 1 THEN 88
                     ELSE IF i = 2 THEN ToUint8(len)
                     ELSE buffer[i - 2]])
    ELSE IF len <= 65535
      THEN Return([i \in 1..(3 + len) |->
                     IF i = 1 THEN 89
                     ELSE IF i = 2 THEN ToUint8(ShiftRight(len, 8))
                     ELSE IF i = 3 THEN ToUint8(And255(len))
                     ELSE buffer[i - 3]])
    ELSE Throw("Byte string too long for CBOR encoding")

\* arrays[lo..hi] laid end to end
RECURSIVE concatRange(_, _, _)
concatRange(arrays, lo, hi) ==
    IF lo > hi THEN <<>>
    ELSE IF lo = hi THEN arrays[lo]
    ELSE LET mid == (lo + hi) \div 2
         IN  concatRange(arrays, lo, mid) \o concatRange(arrays, mid + 1, hi)

\* concatUint8Arrays: result.set(arr, offset) for each array in turn, the
\* offset advancing by arr.length: the arrays laid end to end
concatUint8Arrays(arrays) == concatRange(arrays, 1, Len(arrays))

\* the for loop of encodePlutusBuiltinByteString: iteration k (0-based) runs
\* with i = k * PLUTUS_CHUNK_SIZE while i < buffer.length, and pushes the
\* encoding of buffer.subarray(i, min(i + PLUTUS_CHUNK_SIZE, buffer.length));
\* an exception of encodeCBORByteString leaves the loop and the function
chunkLoop(buffer) ==
    LET n      == (Len(buffer) + PLUTUS_CHUNK_SIZE - 1) \div PLUTUS_CHUNK_SIZE
        enc(k) == LET i == k * PLUTUS_CHUNK_SIZE
                  IN  encodeCBORByteString(
                          subarray(buffer, i, Min(i + PLUTUS_CHUNK_SIZE, Len(buffer))))
        rs     == [k \in 1..n |-> enc(k - 1)]
    IN  IF \E k \in 1..n : rs[k].threw
          THEN rs[CHOOSE k \in 1..n : rs[k].threw /\ \A j \in 1..(k - 1) : ~rs[j].threw]
          ELSE Return(concatUint8Arrays(
                   << <<95>> >> \o [k \in 1..n |-> rs[k].bytes] \o << <<255>> >>))

\* mutant: every buffer goes to the definite encoder whole
encodePlutusBuiltinByteString_whole(buffer) == encodeCBORByteString(buffer)

\* mutant: the length test is < instead of <=, so 64 bytes are chunked
encodePlutusBuiltinByteString_lt(buffer) ==
    IF Len(buffer) < PLUTUS_CHUNK_SIZE
      THEN encodeCBORByteString(buffer)
      ELSE chunkLoop(buffer)

encodePlutusBuiltinByteString(buffer) ==
    IF Len(buffer) <= PLUTUS_CHUNK_SIZE
      THEN encodeCBORByteString(buffer)
      ELSE chunkLoop(buffer)

--------------------------------------------------------------------------
(* task-hash.ts: its own copies of the same encoders.                      *)

PLUTUS_CHUNK_SIZE_task == 64

encodeCBORByteString_task(buffer) ==
    LET len == Len(buffer) IN
    IF len <= 23
      THEN Return([i \in 1..(1 + len) |-> IF i = 1 THEN 64 + len ELSE buffer[i - 1]])
    ELSE IF len <= 255
      THEN Return([i \in 1..(2 + len) |->
                     IF i = 1 THEN 88
                     ELSE IF i = 2 THEN ToUint8(len)
                     ELSE buffer[i - 2]])
    ELSE IF len <= 65535
      THEN Return([i \in 1..(3 + len) |->
                     IF i = 1 THEN 89
                     ELSE IF i = 2 THEN ToUint8(ShiftRight(len, 8))
                     ELSE IF i = 3 THEN ToUint8(And255(len))
                     ELSE buffer[i - 3]])
    ELSE Throw("Byte string too long for CBOR encoding")

concatUint8Arrays_task(arrays) == concatRange(arrays, 1, Len(arrays))

chunkLoop_task(buffer) ==
    LET n      == (Len(buffer) + PLUTUS_CHUNK_SIZE_task - 1) \div PLUTUS_CHUNK_SIZE_task
        enc(k) == LET i == k * PLUTUS_CHUNK_SIZE_task
                  IN  encodeCBORByteString_task(
                          subarray(buffer, i, Min(i + PLUTUS_CHUNK_SIZE_task, Len(buffer))))
        rs     == [k \in 1..n |-> enc(k - 1)]
    IN  IF \E k \in 1..n : rs[k].threw
          THEN rs[CHOOSE k \in 1..n : rs[k].threw /\ \A j \in 1..(k - 1) : ~rs[j].threw]
          ELSE Return(concatUint8Arrays_task(
                   << <<95>> >> \o [k \in 1..n |-> rs[k].bytes] \o << <<255>> >>))

encodePlutusBuiltinByteString_task(buffer) ==
    IF Len(buffer) <= PLUTUS_CHUNK_SIZE_task
      THEN encodeCBORByteString_task(buffer)
      ELSE chunkLoop_task(buffer)

--------------------------------------------------------------------------
(* Inputs of the byte-string encoders.                                     *)

\* a buffer of len bytes whose content does not repeat with period 64
Buf(len, seed) == [i \in 1..len |-> (seed * 97 + i * 3) % 251]

\* every small length, and the lengths around each width boundary
ByteLens == (0..MaxSmallLen) \cup {127, 128, 129, 191, 192, 193, 255, 256, 257,
                                  65535, 65536}

Seeds == 0..MaxSeed

Buffers == {Buf(len, seed) : len \in ByteLens, seed \in Seeds}

\* a call that keeps no local variable of interest
NoLocals == <<>>

\* no call made yet
Idle == op = "idle"

InitBytes ==
    /\ op = "idle"
    /\ arg \in Buffers
    /\ local = NoLocals
    /\ ret = Return(<<>>)

CallEncodeCBORByteString ==
    /\ Idle
    /\ op' = "slt.encodeCBORByteString"
    /\ ret' = encodeCBORByteString(arg)
    /\ UNCHANGED <<arg, local>>

CallEncodePlutusBuiltinByteString ==
    /\ Idle
    /\ op' = "slt.encodePlutusBuiltinByteString"
    /\ ret' = encodePlutusBuiltinByteString(arg)
    /\ UNCHANGED <<arg, local>>

CallEncodeCBORByteStringTask ==
    /\ Idle
    /\ op' = "task.encodeCBORByteString"
    /\ ret' = encodeCBORByteString_task(arg)
    /\ UNCHANGED <<arg, local>>

CallEncodePlutusBuiltinByteStringTask ==
    /\ Idle
    /\ op' = "task.encodePlutusBuiltinByteString"
    /\ ret' = encodePlutusBuiltinByteString_task(arg)
    /\ UNCHANGED <<arg, local>>

NextBytes ==
    \/ CallEncodeCBORByteString
    \/ CallEncodePlutusBuiltinByteString
    \/ CallEncodeCBORByteStringTask
    \/ CallEncodePlutusBuiltinByteStringTask

SpecBytes == InitBytes /\ [][NextBytes]_vars

--------------------------------------------------------------------------
(* Claims about the byte-string encoders (checked under SpecBytes).        *)

\* the CBOR major-type-2 header of a definite byte string of L bytes
DefiniteHeader(L) ==
    IF L <= 23 THEN <<64 + L>>
    ELSE IF L <= 255 THEN <<88, L>>
    ELSE <<89, L \div 256, L % 256>>

\* the definite byte-string encoding of b
DefiniteByteString(b) == DefiniteHeader(Len(b)) \o b

IsByteStringCall == op \in {"slt.encodeCBORByteString", "task.encodeCBORByteString"}

IsChunkedCall ==
    op \in {"slt.encodePlutusBuiltinByteString", "task.encodePlutusBuiltinByteString"}

\* byte length of the k-th slice (1-based) of a buffer of L bytes
SliceLen(L, k) == Min(64, L - 64 * (k - 1))

\* C1: the chunked encoder returns the definite encoding of a buffer of at
\* most 64 bytes; a longer buffer yields 0x5f, then side by side the definite
\* encodings of its ceil(len/64) successive slices (all of 64 bytes but the
\* last, which has 1..64 bytes), then 0xff, and nothing else.
C1_ChunkedByteString ==
    IsChunkedCall =>
        LET L   == Len(arg)
            out == ret.bytes
            n   == (L + 63) \div 64
            \* every slice before the k-th takes 2 header bytes and 64 payload bytes
            off(k) == 1 + 66 * (k - 1)
            hdr(k) == IF SliceLen(L, k) <= 23 THEN 1 ELSE 2
        IN  /\ ~ret.threw
            /\ IF L <= 64
                 THEN out = DefiniteByteString(arg)
                 ELSE /\ out[1] = 95
                      /\ SliceLen(L, n) \in 1..64
                      /\ \A k \in 1..(n - 1) : SliceLen(L, k) = 64
                      /\ \A k \in 1..n :
                            SubSeq(out, off(k) + 1, off(k) + hdr(k) + SliceLen(L, k))
                              = DefiniteByteString(
                                    SubSeq(arg, 64 * (k - 1) + 1,
                                           64 * (k - 1) + SliceLen(L, k)))
                      /\ Len(out) = off(n) + hdr(n) + SliceLen(L, n) + 1
                      /\ out[Len(out)] = 255
            /\ (L = 64 => out = <<88, 64>> \o arg)
            /\ (L = 65 => out = <<95, 88, 64>> \o SubSeq(arg, 1, 64)
                                   \o <<65, arg[65], 255>>)

\* a 65-byte buffer was encoded as an indefinite string
C1_Witness ==
    /\ IsChunkedCall
    /\ Len(arg) = 65
    /\ ~ret.threw
    /\ ret.bytes[1] = 95

\* C2: the definite encoder returns header ++ b with the header 0x40+L for
\* L <= 23, 0x58 L for L <= 255, 0x59 and L in two big-endian bytes for
\* L <= 65535; a longer buffer makes the call fail and return no bytes.
C2_ByteStringLadder ==
    IsByteStringCall =>
        LET L == Len(arg) IN
        IF L <= 23 THEN ~ret.threw /\ ret.bytes = <<64 + L>> \o arg
        ELSE IF L <= 255 THEN ~ret.threw /\ ret.bytes = <<88, L>> \o arg
        ELSE IF L <= 65535
          THEN ~ret.threw /\ ret.bytes = <<89, L \div 256, L % 256>> \o arg
        ELSE ret.threw /\ ret.bytes = <<>>

\* a buffer of 256..65535 bytes was encoded with the two-byte length
C2_Witness ==
    /\ IsByteStringCall
    /\ Len(arg) = 256
    /\ ~ret.threw
    /\ SubSeq(ret.bytes, 1, 3) = <<89, 1, 0>>

\* a buffer of more than 65535 bytes made the encoder throw
C2_WitnessTooLarge ==
    /\ IsByteStringCall
    /\ Len(arg) > 65535
    /\ ret.threw

--------------------------------------------------------------------------
(* task-hash.ts: encodePlutusInteger.                                      *)
(*                                                                         *)
(* The argument is a JavaScript number, an IEEE-754 double.  An integer-   *)
(* valued double is modelled as [neg, bits]: its sign and the set of the   *)
(* positions of the 1 bits of its magnitude (the value is the sum of 2^i   *)
(* over bits), so that magnitudes up to 2^64 keep every bit.  A magnitude  *)
(* is a double iff its 1 bits span at most 53 positions.                   *)

MaxOf(S) == CHOOSE x \in S : \A y \in S : y <= x

MinOf(S) == CHOOSE x \in S : \A y \in S : x <= y

\* the number a set of bit positions stands for (used below 2^31 only)
RECURSIVE BitsValue(_)
BitsValue(S) ==
    IF S = {} THEN 0
    ELSE LET i == MinOf(S) IN 2 ^ i + BitsValue(S \ {i})

\* the bit positions of a natural number v * 2^shift
RECURSIVE BitsOf(_, _)
BitsOf(v, shift) ==
    IF v = 0 THEN {}
    ELSE (IF v % 2 = 1 THEN {shift} ELSE {}) \cup BitsOf(v \div 2, shift + 1)

\* a magnitude that a double represents exactly
IsDouble(S) == S = {} \/ MaxOf(S) - MinOf(S) <= 52

\* S + 2^p
AddPow2(S, p) ==
    LET z == MinOf({i \in p..(MaxOf(S \cup {p}) + 1) : i \notin S})
    IN  (S \ (p..(z - 1))) \cup {z}

\* S - 1, for S # {}
Decrement(S) ==
    LET j == MinOf(S) IN (S \ {j}) \cup (0..(j - 1))

\* the double nearest to the magnitude S, ties to even (IEEE-754 default)
RoundToDouble(S) ==
    IF IsDouble(S) THEN S
    ELSE LET cut  == MaxOf(S) - 52
             kept == {i \in S : i >= cut}
             rest == {i \in S : i < cut}
             up   == (cut - 1) \in rest /\ (rest # {cut - 1} \/ cut \in kept)
         IN  IF up THEN AddPow2(kept, cut) ELSE kept

\* -1 - n for a negative double n of magnitude S: the exact S - 1, rounded
MinusOneMinus(S) == RoundToDouble(Decrement(S))

\* x <= 23, x <= 0xff, x <= 0xffff, x <= 0xffffffff for a magnitude x
Leq23(S) == S \subseteq 0..4 /\ BitsValue(S) <= 23
LeqFF(S) == S \subseteq 0..7
LeqFFFF(S) == S \subseteq 0..15
LeqFFFFFFFF(S) == S \subseteq 0..31

\* ToInt32 of a non-negative integer double: its low 32 bits (two's complement)
ToInt32(S) == S \cap 0..31

\* x >> k on a 32-bit pattern: sign-propagating right shift
Sar(S32, k) ==
    {i - k : i \in {j \in S32 : j >= k}} \cup (IF 31 \in S32 THEN (32 - k)..31 ELSE {})

\* x & 0xff on a 32-bit pattern
AndFF(S32) == S32 \cap 0..7

\* storing the int32 pattern (or a non-negative double) into a Uint8Array element
StoreUint8(S) == BitsValue(S \cap 0..7)

\* BigInt(x); DataView.setBigUint64(1, big, false): big mod 2^64 in 8 big-endian bytes
setBigUint64(S) ==
    [j \in 1..8 |-> BitsValue({i - 8 * (8 - j) : i \in S \cap (8 * (8 - j))..(8 * (8 - j) + 7)})]

\* mutant: the two-byte form stores the high byte twice
integerLadder_highByteTwice(h, x) ==
    IF Leq23(x) THEN <<h + BitsValue(x)>>
    ELSE IF LeqFF(x) THEN <<h + 24, StoreUint8(x)>>
    ELSE IF LeqFFFF(x)
      THEN <<h + 25, StoreUint8(Sar(ToInt32(x), 8)), StoreUint8(Sar(ToInt32(x), 8))>>
    ELSE IF LeqFFFFFFFF(x)
      THEN <<h + 26, StoreUint8(AndFF(Sar(ToInt32(x), 24))),
                     StoreUint8(AndFF(Sar(ToInt32(x), 16))),
                     StoreUint8(AndFF(Sar(ToInt32(x), 8))),
                     StoreUint8(AndFF(ToInt32(x)))>>
    ELSE <<h + 27>> \o setBigUint64(x)

\* the ladder of encodePlutusInteger for the magnitude x under header base h
\* (0x00 for n >= 0, 0x20 for n < 0)
integerLadder(h, x) ==
    IF Leq23(x) THEN <<h + BitsValue(x)>>
    ELSE IF LeqFF(x) THEN <<h + 24, StoreUint8(x)>>
    ELSE IF LeqFFFF(x)
      THEN <<h + 25, StoreUint8(Sar(ToInt32(x), 8)), StoreUint8(AndFF(ToInt32(x)))>>
    ELSE IF LeqFFFFFFFF(x)
      THEN <<h + 26, StoreUint8(AndFF(Sar(ToInt32(x), 24))),
                     StoreUint8(AndFF(Sar(ToInt32(x), 16))),
                     StoreUint8(AndFF(Sar(ToInt32(x), 8))),
                     StoreUint8(AndFF(ToInt32(x)))>>
    ELSE <<h + 27>> \o setBigUint64(x)

\* encodePlutusInteger(n)
encodePlutusInteger(n) ==
    IF ~n.neg
      THEN Return(integerLadder(0, n.bits))
      ELSE LET absVal == MinusOneMinus(n.bits)
           IN  Return(integerLadder(32, absVal))

--------------------------------------------------------------------------
(* Inputs of the integer encoder: integer-valued doubles.                  *)

\* integers 0..MaxSmallInt and their negatives are all tried
MaxSmallInt == 40

\* 2^k: the first value of each width and the powers between
PowerMagnitudes == {{k} : k \in 0..63}

\* 2^(k+1) - 2^lo, the largest doubles below 2^(k+1): the last value of a width
RunMagnitudes == {(IF k > 52 THEN k - 52 ELSE 0)..k : k \in 0..63}

\* 2^k + 1 and 2^k + 2 where a double holds them
OffsetMagnitudes == {{k, j} : k \in 2..53, j \in 0..1} \ {{53, 0}}

\* 1769027280000 and 15000000, the task of the documentation
DocMagnitudes ==
    {{7, 10, 11, 12, 17, 18, 19, 20, 21, 25, 29, 30, 31, 32, 33, 35, 36, 39, 40},
     {6, 7, 8, 13, 14, 15, 18, 21, 22, 23}}

Magnitudes ==
    {BitsOf(v, 0) : v \in 0..MaxSmallInt} \cup {BitsOf(v, 0) : v \in {255, 256, 65535, 65536}}
        \cup PowerMagnitudes \cup RunMagnitudes \cup OffsetMagnitudes \cup DocMagnitudes

\* the doubles n with -2^64 <= n < 2^64 that are tried
Numbers ==
    {[neg |-> FALSE, bits |-> S] : S \in Magnitudes}
        \cup {[neg |-> TRUE, bits |-> S] : S \in (Magnitudes \ {{}}) \cup {{64}}}

InitInteger ==
    /\ op = "idle"
    /\ arg \in Numbers
    /\ local = NoLocals
    /\ ret = Return(<<>>)

CallEncodePlutusInteger ==
    /\ Idle
    /\ op' = "task.encodePlutusInteger"
    /\ ret' = encodePlutusInteger(arg)
    /\ UNCHANGED <<arg, local>>

NextInteger == CallEncodePlutusInteger

SpecInteger == InitInteger /\ [][NextInteger]_vars

--------------------------------------------------------------------------
(* Claims about the integer encoder (checked under SpecInteger).           *)

\* the w big-endian bytes of the magnitude m
BigEndian(m, w) ==
    [j \in 1..w |-> BitsValue({i - 8 * (w - j) : i \in {b \in m : b \div 8 = w - j}})]

\* the minimal-width CBOR encoding of the magnitude m under major type major
MinimalCBORInteger(major, m) ==
    IF m \subseteq 0..4 /\ BitsValue(m) <= 23 THEN <<32 * major + BitsValue(m)>>
    ELSE IF m \subseteq 0..7 THEN <<32 * major + 24>> \o BigEndian(m, 1)
    ELSE IF m \subseteq 0..15 THEN <<32 * major + 25>> \o BigEndian(m, 2)
    ELSE IF m \subseteq 0..31 THEN <<32 * major + 26>> \o BigEndian(m, 4)
    ELSE <<32 * major + 27>> \o BigEndian(m, 8)

\* C3: for every integer n with -2^64 <= n < 2^64 the integer encoder returns
\* the minimal-width CBOR encoding of n: major type 0 and m = n for n >= 0,
\* major type 1 and m = -1 - n (exactly) for n < 0, the payload being the
\* big-endian bytes of m.
C3_IntegerEncoding ==
    op = "task.encodePlutusInteger" =>
        /\ ~ret.threw
        /\ ret.bytes = IF arg.neg THEN MinimalCBORInteger(1, Decrement(arg.bits))
                                  ELSE MinimalCBORInteger(0, arg.bits)

\* the part of C3 the code satisfies: every n >= 0, and every n < 0 whose
\* -1 - n is itself a double (all n >= -2^53)
C3_HoldsWhereExact ==
    (op = "task.encodePlutusInteger" /\ (~arg.neg \/ IsDouble(Decrement(arg.bits)))) =>
        /\ ~ret.threw
        /\ ret.bytes = IF arg.neg THEN MinimalCBORInteger(1, Decrement(arg.bits))
                                  ELSE MinimalCBORInteger(0, arg.bits)

--------------------------------------------------------------------------
(* Runtime and library functions the pipelines call.                       *)

\* a function returning normally with a string
ReturnString(v) == [threw |-> FALSE, str |-> v, error |-> ""]

\* a function returning normally with a boolean
ReturnBool(v) == [threw |-> FALSE, bool |-> v, error |-> ""]

\* the exception that ends a sequence of calls: that of the first call to throw
FirstThrown(calls) == calls[MinOf({k \in 1..Len(calls) : calls[k].threw})]

AnyThrew(calls) == \E k \in 1..Len(calls) : calls[k].threw

IsHighSurrogate(c) == c >= 55296 /\ c <= 56319

IsLowSurrogate(c) == c >= 56320 /\ c <= 57343

\* the UTF-8 bytes TextEncoder emits for the code unit at position i of s:
\* a surrogate pair is one 4-byte code point (emitted at its high half), a
\* lone surrogate becomes U+FFFD
utf8At(s, i) ==
    LET c == s[i] IN
    IF c < 128 THEN <<c>>
    ELSE IF c < 2048 THEN <<192 + c \div 64, 128 + (c % 64)>>
    ELSE IF IsHighSurrogate(c) /\ i < Len(s) /\ IsLowSurrogate(s[i + 1])
      THEN LET cp == 65536 + (c - 55296) * 1024 + (s[i + 1] - 56320)
           IN  <<240 + cp \div 262144, 128 + ((cp \div 4096) % 64),
                 128 + ((cp \div 64) % 64), 128 + (cp % 64)>>
    ELSE IF IsLowSurrogate(c) /\ i > 1 /\ IsHighSurrogate(s[i - 1]) THEN <<>>
    ELSE IF IsHighSurrogate(c) \/ IsLowSurrogate(c) THEN <<239, 191, 189>>
    ELSE <<224 + c \div 4096, 128 + ((c \div 64) % 64), 128 + (c % 64)>>

\* new TextEncoder().encode(s)
TextEncoderEncode(s) == concatRange([i \in 1..Len(s) |-> utf8At(s, i)], 1, Len(s))

\* the code unit of the lowercase hex digit d
HexDigitUnit(d) == IF d < 10 THEN 48 + d ELSE 87 + d

\* sum over lo..hi of f, modulo 65521
RECURSIVE checksumRange(_, _, _, _)
checksumRange(bytes, lo, hi, w) ==
    IF lo > hi THEN 0
    ELSE IF lo = hi THEN ((bytes[lo] + 1) * (((lo * w) % 251) + 1)) % 65521
    ELSE LET mid == (lo + hi) \div 2
         IN  (checksumRange(bytes, lo, mid, w) + checksumRange(bytes, mid + 1, hi, w)) % 65521

\* blake.blake2bHex(bytes, undefined, 32): the library's Blake2b-256 is not
\* part of the repository.  It is replaced by a deterministic digest of the
\* same shape, 64 lowercase hex digits computed from every byte and its
\* position; nothing checked below depends on more than that.
blake2bHex(bytes) ==
    LET a == checksumRange(bytes, 1, Len(bytes), 1)
        b == checksumRange(bytes, 1, Len(bytes), 7)
        c == Len(bytes) % 65521
    IN  [k \in 1..64 |->
            HexDigitUnit(((a \div (16 ^ (k % 4))) + (b \div (16 ^ ((k \div 4) % 4)))
                          + k * (c + 3) + (k * k) \div 3) % 16)]

\* String.prototype.toLowerCase on one code unit of the strings tried here
\* (ASCII, and code units without a lowercase form)
lowerUnit(c) == IF c >= 65 /\ c <= 90 THEN c + 32 ELSE c

toLowerCase(str) == [i \in 1..Len(str) |-> lowerUnit(str[i])]

--------------------------------------------------------------------------
(* task-hash.ts: the task pipeline.                                        *)

\* mutant: the empty list is encoded like any other, as 0x9f 0xff
encodeNativeAssets_noEmptyCase(assets) ==
    LET n     == Len(assets)
        ids   == [k \in 1..n |->
                    encodePlutusBuiltinByteString_task(TextEncoderEncode(assets[k][1]))]
        qtys  == [k \in 1..n |-> encodePlutusInteger(assets[k][2])]
        calls == [j \in 1..(2 * n) |-> IF j % 2 = 1 THEN ids[(j + 1) \div 2] ELSE qtys[j \div 2]]
    IN  IF AnyThrew(calls) THEN FirstThrown(calls)
        ELSE Return(concatUint8Arrays_task(
                 << <<159>> >>
                   \o [j \in 1..(3 * n) |->
                         IF j % 3 = 1 THEN <<130>>
                         ELSE IF j % 3 = 2 THEN ids[(j + 1) \div 3].bytes
                         ELSE qtys[j \div 3].bytes]
                   \o << <<255>> >>))

\* encodeNativeAssets: 0x80 for no asset; else 0x9f, and for each asset in
\* turn 0x82, its class as a chunked byte string, its quantity, then 0xff
encodeNativeAssets(assets) ==
    IF Len(assets) = 0 THEN Return(<<128>>)
    ELSE
    LET n     == Len(assets)
        ids   == [k \in 1..n |->
                    encodePlutusBuiltinByteString_task(TextEncoderEncode(assets[k][1]))]
        qtys  == [k \in 1..n |-> encodePlutusInteger(assets[k][2])]
        calls == [j \in 1..(2 * n) |-> IF j % 2 = 1 THEN ids[(j + 1) \div 2] ELSE qtys[j \div 2]]
    IN  IF AnyThrew(calls) THEN FirstThrown(calls)
        ELSE Return(concatUint8Arrays_task(
                 << <<159>> >>
                   \o [j \in 1..(3 * n) |->
                         IF j % 3 = 1 THEN <<130>>
                         ELSE IF j % 3 = 2 THEN ids[(j + 1) \div 3].bytes
                         ELSE qtys[j \div 3].bytes]
                   \o << <<255>> >>))

\* mutant: fields 2 and 3 are pushed in the other order
encodeTaskAsPlutusData_swapped(task) ==
    LET f1 == encodePlutusBuiltinByteString_task(TextEncoderEncode(task.project_content))
        f2 == encodePlutusInteger(task.expiration_time)
        f3 == encodePlutusInteger(task.lovelace_amount)
        f4 == encodeNativeAssets(task.native_assets)
    IN  IF AnyThrew(<<f1, f2, f3, f4>>) THEN FirstThrown(<<f1, f2, f3, f4>>)
        ELSE Return(concatUint8Arrays_task(
                 << <<216, 121>>, <<159>>, f1.bytes, f3.bytes, f2.bytes, f4.bytes, <<255>> >>))

\* encodeTaskAsPlutusData: tag 121, 0x9f, the four fields, 0xff
encodeTaskAsPlutusData(task) ==
    LET f1 == encodePlutusBuiltinByteString_task(TextEncoderEncode(task.project_content))
        f2 == encodePlutusInteger(task.expiration_time)
        f3 == encodePlutusInteger(task.lovelace_amount)
        f4 == encodeNativeAssets(task.native_assets)
    IN  IF AnyThrew(<<f1, f2, f3, f4>>) THEN FirstThrown(<<f1, f2, f3, f4>>)
        ELSE Return(concatUint8Arrays_task(
                 << <<216, 121>>, <<159>>, f1.bytes, f2.bytes, f3.bytes, f4.bytes, <<255>> >>))

\* uint8ArrayToHex: b.toString(16).padStart(2, "0") of every byte, joined
uint8ArrayToHex(arr) ==
    [i \in 1..(2 * Len(arr)) |->
        IF i % 2 = 1 THEN HexDigitUnit(arr[(i + 1) \div 2] \div 16)
                     ELSE HexDigitUnit(arr[i \div 2] % 16)]

--------------------------------------------------------------------------
(* Inputs of the task pipeline.                                            *)

\* a task carries 0..MaxAssets native assets
MaxAssets == 2

\* len ASCII letters
Ascii(len) == [i \in 1..len |-> 97 + ((i * 7) % 26)]

\* the string s repeated n times
Repeat(s, n) == [i \in 1..(n * Len(s)) |-> s[((i - 1) % Len(s)) + 1]]

\* "Open Task #1"
OpenTask1 == <<79, 112, 101, 110, 32, 84, 97, 115, 107, 32, 35, 49>>

\* strings whose UTF-8 length is around the chunk size and the header widths:
\* ASCII; U+00E9 (2 bytes), U+20AC (3 bytes), U+1F600 (a surrogate pair, 4
\* bytes) repeated; a lone surrogate
Contents ==
    {Ascii(len) : len \in {0, 1, 23, 24, 63, 64, 65, 128, 129, 140}}
        \cup {OpenTask1, Repeat(<<233>>, 32), Repeat(<<233>>, 33), Repeat(<<8364>>, 22),
              Repeat(<<55357, 56832>>, 16), Repeat(<<55357, 56832>>, 17), <<97, 55357>>}

\* 1769027280000, 0, 24, -1, -2^55
Expirations ==
    {[neg |-> FALSE,
      bits |-> {7, 10, 11, 12, 17, 18, 19, 20, 21, 25, 29, 30, 31, 32, 33, 35, 36, 39, 40}],
     [neg |-> FALSE, bits |-> {}],
     [neg |-> FALSE, bits |-> {3, 4}],
     [neg |-> TRUE, bits |-> {0}],
     [neg |-> TRUE, bits |-> {55}]}

\* 15000000, 23
Lovelaces ==
    {[neg |-> FALSE, bits |-> {6, 7, 8, 13, 14, 15, 18, 21, 22, 23}],
     [neg |-> FALSE, bits |-> {0, 1, 2, 4}]}

\* an asset class of 2 bytes and one of 70 bytes; quantities 1 and 1000000
NativeAssetChoices ==
    {<<Ascii(2), [neg |-> FALSE, bits |-> {0}]>>,
     <<Ascii(70), [neg |-> FALSE, bits |-> {0}]>>,
     <<Ascii(70), [neg |-> FALSE, bits |-> {6, 9, 14, 16, 17, 18, 19}]>>}

\* sequences over S of length at most n
SeqsUpTo(S, n) == UNION {[1..k -> S] : k \in 0..n}

Tasks ==
    {[project_content |-> c, expiration_time |-> x, lovelace_amount |-> l, native_assets |-> a] :
        c \in Contents, x \in Expirations, l \in Lovelaces,
        a \in SeqsUpTo(NativeAssetChoices, MaxAssets)}

InitTask ==
    /\ op = "idle"
    /\ arg \in Tasks
    /\ local = NoLocals
    /\ ret = Return(<<>>)

\* computeTaskHash(task): the hash, or the exception of the encoder
computeTaskHash(task) ==
    LET cborData == encodeTaskAsPlutusData(task)
    IN  IF cborData.threw THEN cborData ELSE ReturnString(blake2bHex(cborData.bytes))

\* computeTaskHash(task)
CallComputeTaskHash ==
    /\ Idle
    /\ op' = "computeTaskHash"
    /\ local' = [cborData |-> encodeTaskAsPlutusData(arg).bytes]
    /\ ret' = computeTaskHash(arg)
    /\ UNCHANGED arg

\* debugTaskCBOR(task)
CallDebugTaskCBOR ==
    /\ Idle
    /\ op' = "debugTaskCBOR"
    /\ LET cborData == encodeTaskAsPlutusData(arg)
       IN  /\ local' = [cborData |-> cborData.bytes]
           /\ ret' = IF cborData.threw THEN cborData
                     ELSE ReturnString(uint8ArrayToHex(cborData.bytes))
    /\ UNCHANGED arg

NextTask ==
    \/ CallComputeTaskHash
    \/ CallDebugTaskCBOR

SpecTask == InitTask /\ [][NextTask]_vars

--------------------------------------------------------------------------
(* Claims about the task pipeline (checked under SpecTask).                *)

\* the definite encodings of the successive 64-byte slices of b
RECURSIVE SliceEncodings(_)
SliceEncodings(b) ==
    IF b = <<>> THEN <<>>
    ELSE DefiniteByteString(SubSeq(b, 1, Min(64, Len(b))))
             \o SliceEncodings(SubSeq(b, 65, Len(b)))

\* the chunked byte string of section 4.2
ChunkedByteString(b) ==
    IF Len(b) <= 64 THEN DefiniteByteString(b)
    ELSE <<95>> \o SliceEncodings(b) \o <<255>>

\* the integer of section 4.2: the minimal-width CBOR encoding of n
CBORInteger(n) ==
    IF n.neg THEN MinimalCBORInteger(1, Decrement(n.bits))
    ELSE MinimalCBORInteger(0, n.bits)

\* what the code's own integer encoder returns
CodeInteger(n) == encodePlutusInteger(n).bytes

\* an integer field: as section 4.2 defines it, or as the code encodes it
IntegerField(asSpecified, n) == IF asSpecified THEN CBORInteger(n) ELSE CodeInteger(n)

\* (0x82, class, quantity) of every asset from the k-th on
RECURSIVE AssetPairs(_, _, _)
AssetPairs(assets, k, int) ==
    IF k > Len(assets) THEN <<>>
    ELSE <<130>> \o ChunkedByteString(TextEncoderEncode(assets[k][1]))
             \o IntegerField(int, assets[k][2]) \o AssetPairs(assets, k + 1, int)

\* the pre-hash bytes of a task as section 4.4 composes them
TaskBytes(task, int) ==
    <<216, 121, 159>>
        \o ChunkedByteString(TextEncoderEncode(task.project_content))
        \o IntegerField(int, task.expiration_time)
        \o IntegerField(int, task.lovelace_amount)
        \o (IF task.native_assets = <<>> THEN <<128>>
            ELSE <<159>> \o AssetPairs(task.native_assets, 1, int) \o <<255>>)
        \o <<255>>

HexValue(c) == IF c <= 57 THEN c - 48 ELSE c - 87

\* the bytes a hex string spells
FromHex(str) ==
    [i \in 1..(Len(str) \div 2) |-> 16 * HexValue(str[2 * i - 1]) + HexValue(str[2 * i])]

IsTaskCall == op \in {"computeTaskHash", "debugTaskCBOR"}

\* C4: the pre-hash bytes of every task are d8 79 9f, the chunked byte string
\* of the UTF-8 content, the integer expiration, the integer lovelace amount,
\* the assets (80 if there are none, else 9f, per asset 82 + chunked class +
\* integer quantity, ff), then ff; debugTaskCBOR returns them in hex and
\* computeTaskHash hashes them.
C4_TaskEncoding ==
    IsTaskCall =>
        /\ ~ret.threw
        /\ local.cborData = TaskBytes(arg, TRUE)
        /\ (op = "debugTaskCBOR" => FromHex(ret.str) = TaskBytes(arg, TRUE))
        /\ (op = "computeTaskHash" => ret.str = blake2bHex(TaskBytes(arg, TRUE)))

\* the composition alone, with each integer field as encodePlutusInteger
\* returns it: field order, framing bytes and the 0x80 of the empty list
C4_Composition ==
    IsTaskCall =>
        /\ ~ret.threw
        /\ local.cborData = TaskBytes(arg, FALSE)
        /\ (op = "debugTaskCBOR" => FromHex(ret.str) = TaskBytes(arg, FALSE))
        /\ (op = "computeTaskHash" => ret.str = blake2bHex(TaskBytes(arg, FALSE)))

\* a task with two assets and a content of more than 64 bytes was encoded
C4_CompositionWitness ==
    /\ op = "debugTaskCBOR"
    /\ Len(arg.native_assets) = 2
    /\ Len(TextEncoderEncode(arg.project_content)) > 64
    /\ ~ret.threw

\* the task half of C6: no asset is encoded as the single byte 0x80
C6_TaskEmptyAssets ==
    (IsTaskCall /\ arg.native_assets = <<>>) =>
        /\ SubSeq(local.cborData, Len(local.cborData) - 1, Len(local.cborData)) = <<128, 255>>
        /\ encodeNativeAssets(arg.native_assets).bytes = <<128>>

--------------------------------------------------------------------------
(* slt-hash.ts: the SLT pipeline.                                          *)

\* mutant: every item goes through the plain byte-string encoder
encodeAsPlutusArray_plain(items) ==
    LET calls == [k \in 1..Len(items) |-> encodeCBORByteString(items[k])]
    IN  IF AnyThrew(calls) THEN FirstThrown(calls)
        ELSE Return(concatUint8Arrays(
                 << <<159>> >> \o [k \in 1..Len(items) |-> calls[k].bytes] \o << <<255>> >>))

\* mutant: the items are written without their byte-string headers
encodeAsPlutusArray_raw(items) ==
    Return(concatUint8Arrays(<< <<159>> >> \o items \o << <<255>> >>))

\* encodeAsPlutusArray: 0x9f, every item through encodePlutusBuiltinByteString, 0xff
encodeAsPlutusArray(items) ==
    LET calls == [k \in 1..Len(items) |-> encodePlutusBuiltinByteString(items[k])]
    IN  IF AnyThrew(calls) THEN FirstThrown(calls)
        ELSE Return(concatUint8Arrays(
                 << <<159>> >> \o [k \in 1..Len(items) |-> calls[k].bytes] \o << <<255>> >>))

--------------------------------------------------------------------------
(* Inputs of the SLT pipeline.                                             *)

\* lists of 0..MaxSlts strings
MaxSlts == 2

\* "I can set up a Typescript development environment."
KnownSlt1 ==
    <<73, 32, 99, 97, 110, 32, 115, 101, 116, 32, 117, 112, 32, 97, 32, 84, 121, 112, 101,
      115, 99, 114, 105, 112, 116, 32, 100, 101, 118, 101, 108, 111, 112, 109, 101, 110,
      116, 32, 101, 110, 118, 105, 114, 111, 110, 109, 101, 110, 116, 46>>

\* "I can use Github CLI to create an issue."
KnownSlt2 ==
    <<73, 32, 99, 97, 110, 32, 117, 115, 101, 32, 71, 105, 116, 104, 117, 98, 32, 67, 76,
      73, 32, 116, 111, 32, 99, 114, 101, 97, 116, 101, 32, 97, 110, 32, 105, 115, 115,
      117, 101, 46>>

\* "I can run the Andamio T3 App Template locally."
KnownSlt3 ==
    <<73, 32, 99, 97, 110, 32, 114, 117, 110, 32, 116, 104, 101, 32, 65, 110, 100, 97,
      109, 105, 111, 32, 84, 51, 32, 65, 112, 112, 32, 84, 101, 109, 112, 108, 97, 116,
      101, 32, 108, 111, 99, 97, 108, 108, 121, 46>>

SltStrings ==
    {Ascii(len) : len \in {0, 1, 2, 23, 24, 64, 65, 129}}
        \cup {Repeat(<<233>>, 33), KnownSlt1}

SltLists == SeqsUpTo(SltStrings, MaxSlts) \cup {<<KnownSlt1, KnownSlt2, KnownSlt3>>}

InitSlt ==
    /\ op = "idle"
    /\ arg \in SltLists
    /\ local = NoLocals
    /\ ret = Return(<<>>)

\* the local cborData of computeSltHash(slts)
sltCborData(slts) ==
    encodeAsPlutusArray([k \in 1..Len(slts) |-> TextEncoderEncode(slts[k])])

\* computeSltHash(slts): the hash, or the exception of the encoder
computeSltHash(slts) ==
    LET cborData == sltCborData(slts)
    IN  IF cborData.threw THEN cborData ELSE ReturnString(blake2bHex(cborData.bytes))

\* computeSltHash(slts)
CallComputeSltHash ==
    /\ Idle
    /\ op' = "computeSltHash"
    /\ local' = [cborData |-> sltCborData(arg).bytes]
    /\ ret' = computeSltHash(arg)
    /\ UNCHANGED arg

NextSlt == CallComputeSltHash

SpecSlt == InitSlt /\ [][NextSlt]_vars

--------------------------------------------------------------------------
(* Claims about the SLT pipeline (checked under SpecSlt).                  *)

\* the chunked byte strings of the UTF-8 bytes of the strings from the k-th on
RECURSIVE ChunkedStrings(_, _)
ChunkedStrings(strs, k) ==
    IF k > Len(strs) THEN <<>>
    ELSE ChunkedByteString(TextEncoderEncode(strs[k])) \o ChunkedStrings(strs, k + 1)

\* C5: computeSltHash(slts) is the hex digest of 0x9f, the chunked byte
\* string of the UTF-8 bytes of every string in list order, 0xff, and of
\* nothing else.
C5_SltEncoding ==
    op = "computeSltHash" =>
        /\ ~ret.threw
        /\ local.cborData = <<159>> \o ChunkedStrings(arg, 1) \o <<255>>
        /\ ret.str = blake2bHex(<<159>> \o ChunkedStrings(arg, 1) \o <<255>>)

\* a list of two strings, the first of more than 64 bytes, was hashed
C5_Witness ==
    /\ op = "computeSltHash"
    /\ Len(arg) = 2
    /\ Len(TextEncoderEncode(arg[1])) > 64
    /\ arg[1] # arg[2]
    /\ ~ret.threw

\* C6: an empty list is encoded as the single byte 0x80, never as 0x9f 0xff,
\* both as the SLT list of computeSltHash and as the native-asset list of
\* computeTaskHash.
C6_EmptyListIsDefinite ==
    /\ (op = "computeSltHash" /\ arg = <<>>) =>
           /\ local.cborData = <<128>>
           /\ local.cborData # <<159, 255>>
    /\ (op \in {"computeTaskHash", "debugTaskCBOR"} /\ arg.native_assets = <<>>) =>
           /\ encodeNativeAssets(arg.native_assets).bytes = <<128>>
           /\ SubSeq(local.cborData, Len(local.cborData) - 1, Len(local.cborData))
                  = <<128, 255>>

--------------------------------------------------------------------------
(* commitment-hash.ts: JSON-like values.                                   *)
(*                                                                         *)
(* A value is a record: t is its type, and the field of that type holds    *)
(* its content (b a boolean, n a number, s a string, a the items of an     *)
(* array, o the properties of an object); the other fields are unused.     *)
(* The properties of an object are the sequence of its own enumerable      *)
(* properties <<key, value>> in the order the engine enumerates them       *)
(* (Object.keys, JSON.stringify): array-index keys first, ascending by     *)
(* number, then the other keys in the order they were created.             *)

JNull == [t |-> "null", b |-> FALSE, n |-> 0, s |-> <<>>, a |-> <<>>, o |-> <<>>]
JUndefined == [JNull EXCEPT !.t = "undefined"]
JBool(x) == [JNull EXCEPT !.t = "boolean", !.b = x]
JNum(x) == [JNull EXCEPT !.t = "number", !.n = x]
JStr(str) == [JNull EXCEPT !.t = "string", !.s = str]
JArr(items) == [JNull EXCEPT !.t = "array", !.a = items]
JObj(props) == [JNull EXCEPT !.t = "object", !.o = props]

\* a < b for strings compared code unit by code unit (the default order of
\* Array.prototype.sort), or byte by byte
LexLess(a, b) ==
    LET n == Min(Len(a), Len(b))
        d == {i \in 1..n : a[i] # b[i]}
    IN  IF d = {} THEN Len(a) < Len(b) ELSE a[MinOf(d)] < b[MinOf(d)]

\* WhiteSpace and LineTerminator code units, which String.prototype.trim strips
JSWhiteSpace ==
    {9, 10, 11, 12, 13, 32, 160, 5760, 8232, 8233, 8239, 8287, 12288, 65279}
        \cup (8192..8202)

\* mutant: only one white-space code unit is stripped from either end
trim_one(str) ==
    LET a == IF Len(str) >= 1 /\ str[1] \in JSWhiteSpace THEN 2 ELSE 1
        b == IF Len(str) >= a /\ str[Len(str)] \in JSWhiteSpace THEN Len(str) - 1 ELSE Len(str)
    IN  SubSeq(str, a, b)

\* String.prototype.trim
trim(str) ==
    LET keep == {i \in 1..Len(str) : str[i] \notin JSWhiteSpace}
    IN  IF keep = {} THEN <<>> ELSE SubSeq(str, MinOf(keep), MaxOf(keep))

\* "4294967294", the largest array index
MaxArrayIndexString == <<52, 50, 57, 52, 57, 54, 55, 50, 57, 52>>

\* a key the engine treats as an array index: a canonical numeric string
\* of value at most 2^32 - 2
IsArrayIndex(key) ==
    /\ Len(key) >= 1
    /\ \A i \in 1..Len(key) : key[i] >= 48 /\ key[i] <= 57
    /\ (Len(key) = 1 \/ key[1] # 48)
    /\ (Len(key) < 10 \/ (Len(key) = 10 /\ ~LexLess(MaxArrayIndexString, key)))

\* a < b as numbers, for array-index keys
IndexLess(a, b) == Len(a) < Len(b) \/ (Len(a) = Len(b) /\ LexLess(a, b))

\* "__proto__"
ProtoKey == <<95, 95, 112, 114, 111, 116, 111, 95, 95>>

\* obj[key] = val on an ordinary object created by {}: "__proto__" reaches
\* the setter of Object.prototype and creates no own property; an
\* array-index key is enumerated among the indices, any other key last
setProperty(props, key, val) ==
    IF key = ProtoKey THEN props
    ELSE IF \E i \in 1..Len(props) : props[i][1] = key
      THEN [i \in 1..Len(props) |-> IF props[i][1] = key THEN <<key, val>> ELSE props[i]]
    ELSE IF IsArrayIndex(key)
      THEN LET before == {i \in 1..Len(props) :
                             IsArrayIndex(props[i][1]) /\ IndexLess(props[i][1], key)}
               n      == Cardinality(before)
           IN  SubSeq(props, 1, n) \o << <<key, val>> >> \o SubSeq(props, n + 1, Len(props))
    ELSE Append(props, <<key, val>>)

\* Object.keys(obj)
ObjectKeys(props) == [i \in 1..Len(props) |-> props[i][1]]

\* obj[key] of an own property
getProperty(props, key) ==
    props[CHOOSE i \in 1..Len(props) : props[i][1] = key][2]

\* the strings of S in ascending code-unit order
RECURSIVE sortedSeq(_)
sortedSeq(S) ==
    IF S = {} THEN <<>>
    ELSE LET m == CHOOSE x \in S : \A y \in S \ {x} : LexLess(x, y)
         IN  <<m>> \o sortedSeq(S \ {m})

\* mutant: the keys are left in the order Object.keys gives them
sort_none(keys) == keys

\* Array.prototype.sort() of distinct strings
sort(keys) == sortedSeq({keys[i] : i \in 1..Len(keys)})

RECURSIVE normalizeForHashing(_)

\* the for loop of normalizeForHashing over keys[k..]
RECURSIVE normalizeEntries(_, _, _, _)
normalizeEntries(props, keys, k, sorted) ==
    IF k > Len(keys) THEN sorted
    ELSE LET val == getProperty(props, keys[k])
         IN  normalizeEntries(props, keys, k + 1,
                 IF val # JUndefined
                   THEN setProperty(sorted, keys[k], normalizeForHashing(val))
                   ELSE sorted)

\* normalizeForHashing(value)
normalizeForHashing(value) ==
    IF value.t \in {"null", "undefined"} THEN JNull
    ELSE IF value.t = "string" THEN JStr(trim(value.s))
    ELSE IF value.t \in {"number", "boolean"} THEN value
    ELSE IF value.t = "array"
      THEN JArr([i \in 1..Len(value.a) |-> normalizeForHashing(value.a[i])])
    ELSE IF value.t = "object"
      THEN JObj(normalizeEntries(value.o, sort(ObjectKeys(value.o)), 1, <<>>))
    ELSE value

\* the decimal digits of a natural number
RECURSIVE digits(_)
digits(n) == IF n < 10 THEN <<48 + n>> ELSE digits(n \div 10) \o <<48 + (n % 10)>>

\* Number::toString of an integer
numberToString(n) == IF n < 0 THEN <<45>> \o digits(0 - n) ELSE digits(n)

\* a surrogate code unit that is not half of a pair
IsLoneSurrogate(str, i) ==
    \/ IsHighSurrogate(str[i]) /\ ~(i < Len(str) /\ IsLowSurrogate(str[i + 1]))
    \/ IsLowSurrogate(str[i]) /\ ~(i > 1 /\ IsHighSurrogate(str[i - 1]))

\* QuoteJSONString on the code unit at position i
quoteUnit(str, i) ==
    LET c == str[i] IN
    IF c = 34 THEN <<92, 34>>
    ELSE IF c = 92 THEN <<92, 92>>
    ELSE IF c = 8 THEN <<92, 98>>
    ELSE IF c = 9 THEN <<92, 116>>
    ELSE IF c = 10 THEN <<92, 110>>
    ELSE IF c = 12 THEN <<92, 102>>
    ELSE IF c = 13 THEN <<92, 114>>
    ELSE IF c < 32 \/ IsLoneSurrogate(str, i)
      THEN <<92, 117, HexDigitUnit(c \div 4096), HexDigitUnit((c \div 256) % 16),
             HexDigitUnit((c \div 16) % 16), HexDigitUnit(c % 16)>>
    ELSE <<c>>

\* QuoteJSONString
quoteJSONString(str) ==
    <<34>> \o concatRange([i \in 1..Len(str) |-> quoteUnit(str, i)], 1, Len(str)) \o <<34>>

\* the pieces joined by commas
RECURSIVE joinComma(_, _)
joinComma(pieces, k) ==
    IF k > Len(pieces) THEN <<>>
    ELSE (IF k > 1 THEN <<44>> ELSE <<>>) \o pieces[k] \o joinComma(pieces, k + 1)

\* those of the items that satisfy keep, in order
RECURSIVE selectProps(_, _)
selectProps(props, k) ==
    IF k > Len(props) THEN <<>>
    ELSE (IF props[k][2] # JUndefined THEN <<props[k]>> ELSE <<>>) \o selectProps(props, k + 1)

\* JSON.stringify(value) of a value that is not undefined: the own
\* properties of an object in enumeration order, those holding undefined
\* left out; undefined inside an array written as null
RECURSIVE JSONstringify(_)
JSONstringify(value) ==
    IF value.t \in {"null", "undefined"} THEN <<110, 117, 108, 108>>
    ELSE IF value.t = "boolean"
      THEN (IF value.b THEN <<116, 114, 117, 101>> ELSE <<102, 97, 108, 115, 101>>)
    ELSE IF value.t = "number" THEN numberToString(value.n)
    ELSE IF value.t = "string" THEN quoteJSONString(value.s)
    ELSE IF value.t = "array"
      THEN <<91>> \o joinComma([i \in 1..Len(value.a) |-> JSONstringify(value.a[i])], 1)
               \o <<93>>
    ELSE LET props == selectProps(value.o, 1)
         IN  <<123>>
               \o joinComma([i \in 1..Len(props) |->
                               quoteJSONString(props[i][1]) \o <<58>>
                                   \o JSONstringify(props[i][2])], 1)
               \o <<125>>

\* the local variables and the result of computeCommitmentHash(evidence)
computeCommitmentHash(evidence) ==
    LET normalized == normalizeForHashing(evidence)
        jsonString == JSONstringify(normalized)
        bytes      == TextEncoderEncode(jsonString)
    IN  [normalized |-> normalized, jsonString |-> jsonString, bytes |-> bytes,
         hash |-> blake2bHex(bytes)]

--------------------------------------------------------------------------
(* Inputs of the commitment pipeline: JSON-like documents.                 *)

\* objects of up to MaxKeys keys are tried for the key order
MaxKeys == 3

\* null, undefined, true, 1, "x", "  x\n", " ", "﻿a b "
Leaves ==
    {JNull, JUndefined, JBool(TRUE), JNum(1), JStr(<<120>>), JStr(<<32, 32, 120, 10>>),
     JStr(<<32>>), JStr(<<65279, 97, 32, 98, 160>>)}

\* "a", "b", "9", "10", U+FF61, U+1F600 (a surrogate pair), "__proto__"
KeyChoices ==
    {<<97>>, <<98>>, <<57>>, <<49, 48>>, <<65377>>, <<55357, 56832>>, ProtoKey}

\* property lists an object can have: distinct keys, enumerated with the
\* array indices first and ascending
IsPropertyList(props) ==
    \A i, j \in 1..Len(props) :
        i < j => /\ props[i][1] # props[j][1]
                 /\ IsArrayIndex(props[j][1]) =>
                        (IsArrayIndex(props[i][1]) /\ IndexLess(props[i][1], props[j][1]))

\* the objects of at most n properties with keys in K and values in V
Objects(K, V, n) == {JObj(props) : props \in {q \in SeqsUpTo(K \X V, n) : IsPropertyList(q)}}

\* every key order, under the same value
KeyObjects == Objects(KeyChoices, {JNum(1)}, MaxKeys)

\* every leaf as a property value
ValueObjects == Objects({<<97>>, <<98>>}, Leaves, 2)

LeafArrays == {JArr(items) : items \in SeqsUpTo(Leaves, 2)}

\* what is nested inside other values
Inner ==
    Objects({<<97>>, <<98>>, <<57>>}, {JStr(<<32, 120>>), JUndefined}, 2)
        \cup {JArr(<<JUndefined, JStr(<<120, 32>>)>>)}

Nested ==
    {JArr(<<i>>) : i \in Inner}
        \cup {JObj(<< <<(<<97>>), i>> >>) : i \in Inner}
        \cup {JObj(<< <<(<<98>>), i>>, <<(<<97>>), j>> >>) : i, j \in Inner}

\* code units of "type", "doc", "content", "paragraph", "text", " My submission "
KType == <<116, 121, 112, 101>>
KContent == <<99, 111, 110, 116, 101, 110, 116>>
KText == <<116, 101, 120, 116>>
SDoc == <<100, 111, 99>>
SParagraph == <<112, 97, 114, 97, 103, 114, 97, 112, 104>>
SSubmission == <<32, 77, 121, 32, 115, 117, 98, 109, 105, 115, 115, 105, 111, 110, 32>>

\* the Tiptap document of the documentation
TiptapExample ==
    JObj(<< <<KType, JStr(SDoc)>>,
            <<KContent,
              JArr(<<JObj(<< <<KType, JStr(SParagraph)>>,
                             <<KContent,
                               JArr(<<JObj(<< <<KType, JStr(KText)>>,
                                              <<KText, JStr(SSubmission)>> >>)>>)>> >>)>>)>> >>)

Docs == Leaves \cup KeyObjects \cup ValueObjects \cup LeafArrays \cup Nested \cup {TiptapExample}

--------------------------------------------------------------------------
(* normalizeForHashing called, and called again on its own result.         *)

\* a function returning normally with a JSON-like value
ReturnValue(v) == [threw |-> FALSE, val |-> v, error |-> ""]

InitNormalize ==
    /\ op = "idle"
    /\ arg \in Docs
    /\ local = NoLocals
    /\ ret = Return(<<>>)

\* normalizeForHashing(value)
CallNormalizeForHashing ==
    /\ Idle
    /\ op' = "normalizeForHashing"
    /\ ret' = ReturnValue(normalizeForHashing(arg))
    /\ UNCHANGED <<arg, local>>

\* the caller passes the result back: normalizeForHashing(normalizeForHashing(x))
CallNormalizeForHashingAgain ==
    /\ op = "normalizeForHashing"
    /\ op' = "normalizeForHashing(normalized)"
    /\ arg' = ret.val
    /\ local' = [original |-> arg]
    /\ ret' = ReturnValue(normalizeForHashing(ret.val))

NextNormalize ==
    \/ CallNormalizeForHashing
    \/ CallNormalizeForHashingAgain

SpecNormalize == InitNormalize /\ [][NextNormalize]_vars

--------------------------------------------------------------------------
(* Claims about normalizeForHashing (checked under SpecNormalize).         *)

\* C8: normalizing a normalized value returns it unchanged, the key
\* enumeration order of every mapping included.
C8_NormalizeIdempotent ==
    op = "normalizeForHashing(normalized)" => (~ret.threw /\ ret.val = arg)

\* an object with two keys and a padded string was normalized twice
C8_Witness ==
    /\ op = "normalizeForHashing(normalized)"
    /\ local.original.t = "object"
    /\ Len(local.original.o) = 2
    /\ \E i \in 1..2 : local.original.o[i][2] = JStr(<<32, 32, 120, 10>>)
    /\ ret.val # local.original

\* a <= b in code-point order, which is the byte order of the UTF-8 forms
CodePointLeq(a, b) == a = b \/ LexLess(TextEncoderEncode(a), TextEncoderEncode(b))

\* every mapping inside value, at every depth, enumerates its keys ascending
RECURSIVE KeysAscendingEverywhere(_)
KeysAscendingEverywhere(value) ==
    IF value.t = "array"
      THEN \A i \in 1..Len(value.a) : KeysAscendingEverywhere(value.a[i])
    ELSE IF value.t = "object"
      THEN /\ \A i \in 1..(Len(value.o) - 1) :
                  CodePointLeq(value.o[i][1], value.o[i + 1][1])
           /\ \A i \in 1..Len(value.o) : KeysAscendingEverywhere(value.o[i][2])
    ELSE TRUE

\* C10: in every value normalizeForHashing returns, every mapping at every
\* depth enumerates (and serializes) its keys in ascending code-point/byte
\* order, keys that look like integers and keys outside the Basic
\* Multilingual Plane included.
C10_KeysSortedByCodePoint ==
    op \in {"normalizeForHashing", "normalizeForHashing(normalized)"} =>
        KeysAscendingEverywhere(ret.val)

\* keys that are neither array indices nor hold a surrogate
IsPlainKey(key) ==
    /\ ~IsArrayIndex(key)
    /\ \A i \in 1..Len(key) : ~IsHighSurrogate(key[i]) /\ ~IsLowSurrogate(key[i])

RECURSIVE OnlyPlainKeys(_)
OnlyPlainKeys(value) ==
    IF value.t = "array" THEN \A i \in 1..Len(value.a) : OnlyPlainKeys(value.a[i])
    ELSE IF value.t = "object"
      THEN \A i \in 1..Len(value.o) :
               IsPlainKey(value.o[i][1]) /\ OnlyPlainKeys(value.o[i][2])
    ELSE TRUE

\* where C10 does hold: documents without array-index keys and without
\* keys outside the Basic Multilingual Plane
C10_HoldsForPlainKeys ==
    (op = "normalizeForHashing" /\ OnlyPlainKeys(arg)) => KeysAscendingEverywhere(ret.val)

--------------------------------------------------------------------------
(* computeCommitmentHash called on a document and on a rearrangement of    *)
(* it: the same properties inserted in another order, the strings padded.  *)

\* the properties in the order the engine enumerates them when the keys
\* that are not array indices were inserted in another order
reorder(props, order) ==
    LET IsIndexProp(q) == IsArrayIndex(q[1])
        IsNamedProp(q) == ~IsArrayIndex(q[1])
        indexed == SelectSeq(props, IsIndexProp)
        named   == SelectSeq(props, IsNamedProp)
        n       == Len(named)
    IN  indexed \o
          (IF order = "reversed" THEN [i \in 1..n |-> named[n + 1 - i]]
           ELSE IF order = "rotated" THEN [i \in 1..n |-> named[(i % n) + 1]]
           ELSE named)

\* the document with its keys inserted in another order and its string
\* values padded, at every depth
RECURSIVE Rearranged(_, _, _)
Rearranged(value, order, pad) ==
    IF value.t = "string" THEN JStr(pad[1] \o value.s \o pad[2])
    ELSE IF value.t = "array"
      THEN JArr([i \in 1..Len(value.a) |-> Rearranged(value.a[i], order, pad)])
    ELSE IF value.t = "object"
      THEN JObj(reorder([i \in 1..Len(value.o) |->
                            <<value.o[i][1], Rearranged(value.o[i][2], order, pad)>>],
                        order))
    ELSE value

Orders == {"same", "reversed", "rotated"}

\* no padding; space, tab before and line feed, U+FEFF after; U+0085 after
Pads == {<< <<>>, <<>> >>, << <<32, 9>>, <<10, 65279>> >>, << <<>>, <<133>> >>}

InitCommit ==
    /\ op = "idle"
    /\ \E d \in Docs, order \in Orders, pad \in Pads :
           /\ ~(order = "same" /\ pad = << <<>>, <<>> >>)
           /\ arg = <<d, Rearranged(d, order, pad)>>
    /\ local = NoLocals
    /\ ret = Return(<<>>)

\* computeCommitmentHash(d1)
CallComputeCommitmentHash ==
    /\ Idle
    /\ op' = "computeCommitmentHash(d1)"
    /\ local' = <<computeCommitmentHash(arg[1])>>
    /\ ret' = ReturnString(computeCommitmentHash(arg[1]).hash)
    /\ UNCHANGED arg

\* then computeCommitmentHash(d2)
CallComputeCommitmentHashOther ==
    /\ op = "computeCommitmentHash(d1)"
    /\ op' = "computeCommitmentHash(d2)"
    /\ local' = Append(local, computeCommitmentHash(arg[2]))
    /\ ret' = ReturnString(computeCommitmentHash(arg[2]).hash)
    /\ UNCHANGED arg

NextCommit ==
    \/ CallComputeCommitmentHash
    \/ CallComputeCommitmentHashOther

SpecCommit == InitCommit /\ [][NextCommit]_vars

--------------------------------------------------------------------------
(* Claims about computeCommitmentHash (checked under SpecCommit).          *)

\* the code units with the Unicode property White_Space (U+0085 among them,
\* U+FEFF not)
UnicodeWhiteSpace ==
    (9..13) \cup {32, 133, 160, 5760, 8232, 8233, 8239, 8287, 12288} \cup (8192..8202)

\* str without its leading and trailing code units of WS
stripEnds(str, WS) ==
    LET keep == {i \in 1..Len(str) : str[i] \notin WS}
    IN  IF keep = {} THEN <<>> ELSE SubSeq(str, MinOf(keep), MaxOf(keep))

\* d1 and d2 differ at most in the insertion order of keys and in leading
\* or trailing code units of WS in string values
RECURSIVE DifferOnlyInOrderAndSpace(_, _, _)
DifferOnlyInOrderAndSpace(d1, d2, WS) ==
    /\ d1.t = d2.t
    /\ IF d1.t = "string" THEN stripEnds(d1.s, WS) = stripEnds(d2.s, WS)
       ELSE IF d1.t = "array"
         THEN /\ Len(d1.a) = Len(d2.a)
              /\ \A i \in 1..Len(d1.a) : DifferOnlyInOrderAndSpace(d1.a[i], d2.a[i], WS)
       ELSE IF d1.t = "object"
         THEN /\ Len(d1.o) = Len(d2.o)
              /\ \A i \in 1..Len(d1.o) : \E j \in 1..Len(d2.o) :
                     /\ d1.o[i][1] = d2.o[j][1]
                     /\ DifferOnlyInOrderAndSpace(d1.o[i][2], d2.o[j][2], WS)
       ELSE d1 = d2

\* both calls returned the same normalized value, text, bytes and hash
SameCommitment ==
    /\ local[1].normalized = local[2].normalized
    /\ local[1].jsonString = local[2].jsonString
    /\ local[1].bytes = local[2].bytes
    /\ local[1].hash = local[2].hash

--------------------------------------------------------------------------
(* verifySltHash, verifyTaskHash, verifyCommitmentHash.                    *)

\* mutant: the expected hash is compared as given
verifySltHash_strict(slts, expectedHash) ==
    LET computedHash == computeSltHash(slts)
    IN  IF computedHash.threw THEN computedHash
        ELSE ReturnBool(toLowerCase(computedHash.str) = expectedHash)

\* verifySltHash(slts, expectedHash)
verifySltHash(slts, expectedHash) ==
    LET computedHash == computeSltHash(slts)
    IN  IF computedHash.threw THEN computedHash
        ELSE ReturnBool(toLowerCase(computedHash.str) = toLowerCase(expectedHash))

\* verifyTaskHash(task, expectedHash)
verifyTaskHash(task, expectedHash) ==
    LET computedHash == computeTaskHash(task)
    IN  IF computedHash.threw THEN computedHash
        ELSE ReturnBool(toLowerCase(computedHash.str) = toLowerCase(expectedHash))

\* verifyCommitmentHash(evidence, expectedHash)
verifyCommitmentHash(evidence, expectedHash) ==
    LET computedHash == computeCommitmentHash(evidence).hash
    IN  ReturnBool(toLowerCase(computedHash) = toLowerCase(expectedHash))

\* '0', '9', 'a', 'f', 'A', 'F', 'g', 'G'
ReplacementUnits == {48, 57, 97, 102, 65, 70, 103, 71}

\* the hash itself and every string that differs from it in one position
\* by one of the replacement units
ExpectedHashes(hash) ==
    {hash} \cup {[hash EXCEPT ![p] = u] : p \in 1..Len(hash), u \in ReplacementUnits}

VerifySltLists == SeqsUpTo({KnownSlt1, Ascii(70)}, MaxSlts)

VerifyTasks ==
    {[project_content |-> c, expiration_time |-> x, lovelace_amount |-> l, native_assets |-> a] :
        c \in {OpenTask1},
        x \in {[neg |-> FALSE, bits |-> {3, 4}], [neg |-> TRUE, bits |-> {0}]},
        l \in {[neg |-> FALSE, bits |-> {0, 1, 2, 4}]},
        a \in SeqsUpTo(NativeAssetChoices, 1)}

VerifyDocs == Leaves \cup Inner \cup {TiptapExample}

InitVerify ==
    /\ op = "idle"
    /\ \/ \E x \in VerifySltLists : \E e \in ExpectedHashes(computeSltHash(x).str) :
              arg = [pipeline |-> "slt", x |-> x, expectedHash |-> e]
       \/ \E x \in VerifyTasks : \E e \in ExpectedHashes(computeTaskHash(x).str) :
              arg = [pipeline |-> "task", x |-> x, expectedHash |-> e]
       \/ \E x \in VerifyDocs : \E e \in ExpectedHashes(computeCommitmentHash(x).hash) :
              arg = [pipeline |-> "commitment", x |-> x, expectedHash |-> e]
    /\ local = NoLocals
    /\ ret = Return(<<>>)

CallVerifySltHash ==
    /\ Idle
    /\ arg.pipeline = "slt"
    /\ op' = "verifySltHash"
    /\ local' = [computedHash |-> computeSltHash(arg.x).str]
    /\ ret' = verifySltHash(arg.x, arg.expectedHash)
    /\ UNCHANGED arg

CallVerifyTaskHash ==
    /\ Idle
    /\ arg.pipeline = "task"
    /\ op' = "verifyTaskHash"
    /\ local' = [computedHash |-> computeTaskHash(arg.x).str]
    /\ ret' = verifyTaskHash(arg.x, arg.expectedHash)
    /\ UNCHANGED arg

CallVerifyCommitmentHash ==
    /\ Idle
    /\ arg.pipeline = "commitment"
    /\ op' = "verifyCommitmentHash"
    /\ local' = [computedHash |-> computeCommitmentHash(arg.x).hash]
    /\ ret' = verifyCommitmentHash(arg.x, arg.expectedHash)
    /\ UNCHANGED arg

NextVerify ==
    \/ CallVerifySltHash
    \/ CallVerifyTaskHash
    \/ CallVerifyCommitmentHash

SpecVerify == InitVerify /\ [][NextVerify]_vars

--------------------------------------------------------------------------
(* Claims about the verify functions (checked under SpecVerify).           *)

IsVerifyCall == op \in {"verifySltHash", "verifyTaskHash", "verifyCommitmentHash"}

\* the positions where the expected hash differs from the computed one
DiffPositions == {p \in 1..64 : arg.expectedHash[p] # local.computedHash[p]}

\* at p the expected hash has the upper-case form of the computed hex digit
CaseOnly(p) ==
    /\ arg.expectedHash[p] \in 65..70
    /\ local.computedHash[p] = arg.expectedHash[p] + 32

\* C7 as stated: verify(x, computeHash(x)) is true, and verify(x, e) is
\* false for every 64-character e that differs from computeHash(x) in a
\* single position.
C7_RoundTrip ==
    IsVerifyCall =>
        /\ ~ret.threw
        /\ Len(arg.expectedHash) = 64
        /\ DiffPositions = {} => ret.bool
        /\ Cardinality(DiffPositions) = 1 => ~ret.bool

\* C7 (amended): verify(x, computeHash(x)) is true; for a 64-character e
\* that differs from computeHash(x) in a single position, verify(x, e) is
\* false unless e has there the upper-case form of the hex digit, and then
\* it is true: the comparison ignores letter case.
C7_RoundTripUpToCase ==
    IsVerifyCall =>
        /\ ~ret.threw
        /\ Len(arg.expectedHash) = 64
        /\ DiffPositions = {} => ret.bool
        /\ \A p \in 1..64 : DiffPositions = {p} => (ret.bool <=> CaseOnly(p))

\* a hash with one digit replaced by another digit was rejected
C7_Witness ==
    /\ op = "verifyCommitmentHash"
    /\ arg.x = TiptapExample
    /\ \E p \in 1..64 : DiffPositions = {p} /\ ~CaseOnly(p)
    /\ ~ret.bool

\* a hash with one letter in upper case was accepted
C7_WitnessCase ==
    /\ IsVerifyCall
    /\ \E p \in 1..64 : DiffPositions = {p} /\ CaseOnly(p)
    /\ ret.bool

--------------------------------------------------------------------------
(* isValidSltHash, isValidTaskHash, isValidCommitmentHash.                 *)

\* '0'..'9', 'a'..'f', 'A'..'F'
HexUnits == (48..57) \cup (97..102) \cup (65..70)

\* mutant: upper-case digits are not accepted
hexRegexTest_lower(str) ==
    /\ Len(str) = 64
    /\ \A i \in 1..Len(str) : str[i] \in (48..57) \cup (97..102)

\* /^[0-9a-fA-F]{64}$/.test(str): without the m flag ^ and $ match only at
\* the ends of the string, so the whole string is 64 units of the class
hexRegexTest(str) ==
    /\ Len(str) = 64
    /\ \A i \in 1..Len(str) : str[i] \in HexUnits

\* isValidSltHash(hash)
isValidSltHash(hash) ==
    IF Len(hash) # 64 THEN ReturnBool(FALSE) ELSE ReturnBool(hexRegexTest(hash))

\* isValidTaskHash(hash)
isValidTaskHash(hash) ==
    IF Len(hash) # 64 THEN ReturnBool(FALSE) ELSE ReturnBool(hexRegexTest(hash))

\* isValidCommitmentHash(hash), hash a string (typeof hash === "string")
isValidCommitmentHash(hash) ==
    IF Len(hash) # 64 THEN ReturnBool(FALSE) ELSE ReturnBool(hexRegexTest(hash))

\* String.prototype.toUpperCase on the hex strings tried here
toUpperCase(str) == [i \in 1..Len(str) |-> IF str[i] >= 97 /\ str[i] <= 122 THEN str[i] - 32 ELSE str[i]]

\* the commitment hash of the documented example
ExampleHash == computeCommitmentHash(TiptapExample).hash

\* '0', '9', 'a', 'f', 'A', 'F', and around them '/', ':', '@', 'G', '`',
\* 'g'; line feed, space, U+0130, fullwidth '0', a high surrogate
FormatUnits == {48, 57, 97, 102, 65, 70, 47, 58, 64, 71, 96, 103, 10, 32, 304, 65296, 55357}

\* strings around the hash format: one unit replaced, upper case, shorter,
\* longer, a line feed at the end
FormatStrings ==
    {[ExampleHash EXCEPT ![p] = u] : p \in 1..64, u \in FormatUnits}
        \cup {toUpperCase(ExampleHash)}
        \cup {SubSeq(ExampleHash, 1, k) : k \in {0, 1, 32, 63}}
        \cup {ExampleHash \o SubSeq(ExampleHash, 1, k) : k \in {1, 64}}
        \cup {SubSeq(ExampleHash, 1, 63) \o <<10>>, ExampleHash \o <<10>>}

InitFormat ==
    /\ op = "idle"
    /\ arg \in FormatStrings
    /\ local = NoLocals
    /\ ret = Return(<<>>)

CallIsValidSltHash ==
    /\ Idle
    /\ op' = "isValidSltHash"
    /\ ret' = isValidSltHash(arg)
    /\ UNCHANGED <<arg, local>>

CallIsValidTaskHash ==
    /\ Idle
    /\ op' = "isValidTaskHash"
    /\ ret' = isValidTaskHash(arg)
    /\ UNCHANGED <<arg, local>>

CallIsValidCommitmentHash ==
    /\ Idle
    /\ op' = "isValidCommitmentHash"
    /\ ret' = isValidCommitmentHash(arg)
    /\ UNCHANGED <<arg, local>>

NextFormat ==
    \/ CallIsValidSltHash
    \/ CallIsValidTaskHash
    \/ CallIsValidCommitmentHash

SpecFormat == InitFormat /\ [][NextFormat]_vars

--------------------------------------------------------------------------
(* Claims about the format validators (checked under SpecFormat).          *)

IsValidatorCall == op \in {"isValidSltHash", "isValidTaskHash", "isValidCommitmentHash"}

\* exactly 64 characters, each in 0-9, a-f or A-F
IsHashFormat(s) ==
    /\ Len(s) = 64
    /\ \A i \in 1..Len(s) :
           \/ s[i] >= 48 /\ s[i] <= 57
           \/ s[i] >= 97 /\ s[i] <= 102
           \/ s[i] >= 65 /\ s[i] <= 70

\* C13: each validator returns true exactly for the strings of 64 hex
\* digits of either case, returns false (without an exception) for every
\* other string, and the three validators agree.
C13_FormatValidators ==
    IsValidatorCall =>
        /\ ~ret.threw
        /\ ret.bool <=> IsHashFormat(arg)
        /\ isValidSltHash(arg) = isValidTaskHash(arg)
        /\ isValidTaskHash(arg) = isValidCommitmentHash(arg)

\* a hash with digits of both cases was accepted
C13_Witness ==
    /\ op = "isValidTaskHash"
    /\ \E i, j \in 1..Len(arg) : arg[i] \in 65..70 /\ arg[j] \in 97..102
    /\ ret.bool

\* a string of 64 units, one of them not a hex digit, was rejected
C13_WitnessRejected ==
    /\ op = "isValidCommitmentHash"
    /\ Len(arg) = 64
    /\ ~ret.bool

--------------------------------------------------------------------------
(* verifyEvidenceDetailed, and verifyCommitmentHash on the same arguments. *)

\* "Evidence matches on-chain commitment"
MatchMessage ==
    <<69, 118, 105, 100, 101, 110, 99, 101, 32, 109, 97, 116, 99, 104, 101,
    115, 32, 111, 110, 45, 99, 104, 97, 105, 110, 32, 99, 111, 109, 109,
    105, 116, 109, 101, 110, 116>>

\* "Evidence does not match on-chain commitment - content may have been modified"
MismatchMessage ==
    <<69, 118, 105, 100, 101, 110, 99, 101, 32, 100, 111, 101, 115, 32, 110,
    111, 116, 32, 109, 97, 116, 99, 104, 32, 111, 110, 45, 99, 104, 97, 105,
    110, 32, 99, 111, 109, 109, 105, 116, 109, 101, 110, 116, 32, 45, 32,
    99, 111, 110, 116, 101, 110, 116, 32, 109, 97, 121, 32, 104, 97, 118,
    101, 32, 98, 101, 101, 110, 32, 109, 111, 100, 105, 102, 105, 101, 100>>

\* "Invalid on-chain hash format: expected 64 hex characters, got \""
InvalidFormatPrefix ==
    <<73, 110, 118, 97, 108, 105, 100, 32, 111, 110, 45, 99, 104, 97, 105,
    110, 32, 104, 97, 115, 104, 32, 102, 111, 114, 109, 97, 116, 58, 32,
    101, 120, 112, 101, 99, 116, 101, 100, 32, 54, 52, 32, 104, 101, 120,
    32, 99, 104, 97, 114, 97, 99, 116, 101, 114, 115, 44, 32, 103, 111, 116,
    32, 34>>

\* `Invalid on-chain hash format: expected 64 hex characters, got "${onChainHash}"`
InvalidFormatMessage(onChainHash) == InvalidFormatPrefix \o onChainHash \o <<34>>

\* the result when the format check fails
invalidFormatResult(onChainHash) ==
    [isValid |-> FALSE, computedHash |-> <<>>, expectedHash |-> onChainHash,
     message |-> InvalidFormatMessage(onChainHash)]

\* mutant: the format of onChainHash is not checked
verifyEvidenceDetailed_noCheck(evidence, onChainHash) ==
    LET computedHash == computeCommitmentHash(evidence).hash
        isValid      == toLowerCase(computedHash) = toLowerCase(onChainHash)
    IN  ReturnValue([isValid |-> isValid, computedHash |-> computedHash,
                     expectedHash |-> toLowerCase(onChainHash),
                     message |-> IF isValid THEN MatchMessage ELSE MismatchMessage])

\* mutant: onChainHash is compared as given
verifyEvidenceDetailed_caseSensitive(evidence, onChainHash) ==
    IF ~isValidCommitmentHash(onChainHash).bool
      THEN ReturnValue(invalidFormatResult(onChainHash))
    ELSE LET computedHash == computeCommitmentHash(evidence).hash
             isValid      == computedHash = onChainHash
         IN  ReturnValue([isValid |-> isValid, computedHash |-> computedHash,
                          expectedHash |-> toLowerCase(onChainHash),
                          message |-> IF isValid THEN MatchMessage ELSE MismatchMessage])

\* verifyEvidenceDetailed(evidence, onChainHash)
verifyEvidenceDetailed(evidence, onChainHash) ==
    IF ~isValidCommitmentHash(onChainHash).bool
      THEN ReturnValue(invalidFormatResult(onChainHash))
    ELSE LET computedHash == computeCommitmentHash(evidence).hash
             isValid      == toLowerCase(computedHash) = toLowerCase(onChainHash)
         IN  ReturnValue([isValid |-> isValid, computedHash |-> computedHash,
                          expectedHash |-> toLowerCase(onChainHash),
                          message |-> IF isValid THEN MatchMessage ELSE MismatchMessage])

\* the functions verifyEvidenceDetailed calls, in order
detailedCalls(evidence, onChainHash) ==
    IF ~isValidCommitmentHash(onChainHash).bool
      THEN <<"isValidCommitmentHash">>
      ELSE <<"isValidCommitmentHash", "computeCommitmentHash">>

DetailedDocs == Leaves \cup {TiptapExample}

\* the hash of the evidence, in lower and upper case and with one unit
\* replaced; strings that are too short, too long, or end in a line feed
OnChainHashes(hash) ==
    ExpectedHashes(hash)
        \cup {toUpperCase(hash), <<>>, SubSeq(hash, 1, 63), hash \o <<48>>,
              SubSeq(hash, 1, 63) \o <<10>>}

InitDetailed ==
    /\ op = "idle"
    /\ \E x \in DetailedDocs : \E h \in OnChainHashes(computeCommitmentHash(x).hash) :
           arg = [evidence |-> x, onChainHash |-> h]
    /\ local = NoLocals
    /\ ret = Return(<<>>)

CallVerifyEvidenceDetailed ==
    /\ Idle
    /\ op' = "verifyEvidenceDetailed"
    /\ local' = [calls |-> detailedCalls(arg.evidence, arg.onChainHash),
                 detailed |-> verifyEvidenceDetailed(arg.evidence, arg.onChainHash)]
    /\ ret' = verifyEvidenceDetailed(arg.evidence, arg.onChainHash)
    /\ UNCHANGED arg

\* then the simple verifier on the same arguments
CallVerifyCommitmentHashSame ==
    /\ op = "verifyEvidenceDetailed"
    /\ op' = "verifyCommitmentHash(same)"
    /\ ret' = verifyCommitmentHash(arg.evidence, arg.onChainHash)
    /\ UNCHANGED <<arg, local>>

NextDetailed ==
    \/ CallVerifyEvidenceDetailed
    \/ CallVerifyCommitmentHashSame

SpecDetailed == InitDetailed /\ [][NextDetailed]_vars

--------------------------------------------------------------------------
(* Claims about verifyEvidenceDetailed (checked under SpecDetailed).       *)

\* the computed hash equals onChainHash, ignoring case
MatchesIgnoringCase ==
    toLowerCase(computeCommitmentHash(arg.evidence).hash) = toLowerCase(arg.onChainHash)

\* C11: verifyEvidenceDetailed never throws, checks the format before it
\* computes anything, and returns one of three outcomes with pairwise
\* distinct messages: format invalid (isValid false) when onChainHash is
\* not 64 hex characters; content mismatch (isValid false) when the format
\* is valid and the hashes differ ignoring case; match (isValid true) when
\* the format is valid and the hashes are equal ignoring case.
C11_DetailedOutcomes ==
    op = "verifyEvidenceDetailed" =>
        /\ ~ret.threw
        /\ local.calls[1] = "isValidCommitmentHash"
        /\ MatchMessage # MismatchMessage
        /\ InvalidFormatMessage(arg.onChainHash) \notin {MatchMessage, MismatchMessage}
        /\ ~IsHashFormat(arg.onChainHash) =>
               /\ local.calls = <<"isValidCommitmentHash">>
               /\ ~ret.val.isValid
               /\ ret.val.message = InvalidFormatMessage(arg.onChainHash)
        /\ (IsHashFormat(arg.onChainHash) /\ ~MatchesIgnoringCase) =>
               /\ ~ret.val.isValid
               /\ ret.val.message = MismatchMessage
        /\ (IsHashFormat(arg.onChainHash) /\ MatchesIgnoringCase) =>
               /\ ret.val.isValid
               /\ ret.val.message = MatchMessage

\* a string of 64 units that is not a hash was reported as a format error
C11_Witness ==
    /\ op = "verifyEvidenceDetailed"
    /\ Len(arg.onChainHash) = 64
    /\ ~IsHashFormat(arg.onChainHash)
    /\ ret.val.message = InvalidFormatMessage(arg.onChainHash)

\* a well-formed hash of other content was reported as a mismatch
C11_WitnessMismatch ==
    /\ op = "verifyEvidenceDetailed"
    /\ IsHashFormat(arg.onChainHash)
    /\ ret.val.message = MismatchMessage

\* the hash in upper case was reported as a match
C11_WitnessMatch ==
    /\ op = "verifyEvidenceDetailed"
    /\ arg.onChainHash # toLowerCase(arg.onChainHash)
    /\ ret.val.message = MatchMessage

\* exactly 64 characters, all in 0-9 or a-f
IsLowerHex(s) ==
    /\ Len(s) = 64
    /\ \A i \in 1..Len(s) : (s[i] >= 48 /\ s[i] <= 57) \/ (s[i] >= 97 /\ s[i] <= 102)

\* C12: in every result of verifyEvidenceDetailed, for an onChainHash of
\* valid or invalid format, computedHash and expectedHash are 64 lowercase
\* hex characters.
C12_ResultHashesAreHex ==
    op = "verifyEvidenceDetailed" =>
        IsLowerHex(ret.val.computedHash) /\ IsLowerHex(ret.val.expectedHash)

\* where C12 does hold: when onChainHash has the hash format
C12_HoldsWhenFormatValid ==
    (op = "verifyEvidenceDetailed" /\ IsHashFormat(arg.onChainHash)) =>
        IsLowerHex(ret.val.computedHash) /\ IsLowerHex(ret.val.expectedHash)

\* C18: verifyEvidenceDetailed(e, h).isValid equals verifyCommitmentHash(e, h)
\* for every string h, and when the format of h is valid the reported
\* computedHash is computeCommitmentHash(e).
C18_DetailedAgreesWithSimple ==
    op = "verifyCommitmentHash(same)" =>
        /\ ~ret.threw /\ ~local.detailed.threw
        /\ local.detailed.val.isValid = ret.bool
        /\ IsHashFormat(arg.onChainHash) =>
               local.detailed.val.computedHash = computeCommitmentHash(arg.evidence).hash

\* both verifiers accepted the hash written in upper case
C18_Witness ==
    /\ op = "verifyCommitmentHash(same)"
    /\ arg.onChainHash # toLowerCase(arg.onChainHash)
    /\ local.detailed.val.isValid
    /\ ret.bool

\* both verifiers rejected a string that is not of the hash format
C18_WitnessInvalidFormat ==
    /\ op = "verifyCommitmentHash(same)"
    /\ ~IsHashFormat(arg.onChainHash)
    /\ ~local.detailed.val.isValid
    /\ ~ret.bool

--------------------------------------------------------------------------
(* Claims about null and undefined entries (checked under SpecNormalize).  *)

\* the object has an own property key
HasKey(value, key) == \E i \in 1..Len(value.o) : value.o[i][1] = key

\* C14: every entry present in a mapping is present in its normalized
\* form, and an entry whose value is an explicit null or an explicit
\* undefined is kept with the value null.
C14_ExplicitEntriesKept ==
    (op = "normalizeForHashing" /\ arg.t = "object") =>
        \A i \in 1..Len(arg.o) :
            /\ HasKey(ret.val, arg.o[i][1])
            /\ arg.o[i][2] \in {JNull, JUndefined} =>
                   getProperty(ret.val.o, arg.o[i][1]) = JNull

\* what does hold: an entry holding null is kept as null and an entry
\* holding undefined is dropped, under every key but "__proto__"
C14_NullKeptUndefinedDropped ==
    (op = "normalizeForHashing" /\ arg.t = "object") =>
        \A i \in 1..Len(arg.o) :
            /\ (arg.o[i][2] = JNull /\ arg.o[i][1] # ProtoKey) =>
                   (HasKey(ret.val, arg.o[i][1]) /\ getProperty(ret.val.o, arg.o[i][1]) = JNull)
            /\ arg.o[i][2] = JUndefined => ~HasKey(ret.val, arg.o[i][1])

--------------------------------------------------------------------------
(* debugTaskCBOR called on a task and on the same task expiring one later. *)

\* e + 1 for an integer double e whose successor is a double as well
PlusOne(n) ==
    IF ~n.neg THEN [neg |-> FALSE, bits |-> AddPow2(n.bits, 0)]
    ELSE IF n.bits = {0} THEN [neg |-> FALSE, bits |-> {}]
    ELSE [neg |-> TRUE, bits |-> Decrement(n.bits)]

\* 254, 65534, 2^32 - 2, 2^32 - 1, 2^53 - 2, 2^53 - 1: the values one and
\* two below a width boundary and below the largest exact integer
BelowBoundaryMagnitudes == {1..7, 1..15, 1..31, 0..31, 1..52, 0..52}

\* the expirations e tried: e and e + 1 are both integer doubles
SteppedExpirations ==
    {n \in Numbers \cup {[neg |-> s, bits |-> S] : s \in BOOLEAN, S \in BelowBoundaryMagnitudes} :
        IsDouble(n.bits) /\ IsDouble(PlusOne(n).bits)}

SteppedTasks ==
    {[project_content |-> c, expiration_time |-> x, lovelace_amount |-> l, native_assets |-> a] :
        c \in {<<>>, OpenTask1},
        x \in SteppedExpirations,
        l \in {[neg |-> FALSE, bits |-> {0, 1, 2, 4}]},
        a \in {<<>>, <<<<Ascii(2), [neg |-> FALSE, bits |-> {0}]>>>>}}

InitExpiration ==
    /\ op = "idle"
    /\ \E t \in SteppedTasks :
           arg = <<t, [t EXCEPT !.expiration_time = PlusOne(t.expiration_time)]>>
    /\ local = NoLocals
    /\ ret = Return(<<>>)

\* debugTaskCBOR(t)
CallDebugTaskCBOROfT ==
    /\ Idle
    /\ op' = "debugTaskCBOR(t)"
    /\ LET cborData == encodeTaskAsPlutusData(arg[1])
       IN  /\ local' = <<cborData.bytes>>
           /\ ret' = IF cborData.threw THEN cborData
                     ELSE ReturnString(uint8ArrayToHex(cborData.bytes))
    /\ UNCHANGED arg

\* then debugTaskCBOR(t'), t' expiring one later
CallDebugTaskCBOROfTPrime ==
    /\ op = "debugTaskCBOR(t)"
    /\ ~ret.threw
    /\ op' = "debugTaskCBOR(t')"
    /\ LET cborData == encodeTaskAsPlutusData(arg[2])
       IN  /\ local' = <<local[1], cborData.bytes, ret.str>>
           /\ ret' = IF cborData.threw THEN cborData
                     ELSE ReturnString(uint8ArrayToHex(cborData.bytes))
    /\ UNCHANGED arg

NextExpiration ==
    \/ CallDebugTaskCBOROfT
    \/ CallDebugTaskCBOROfTPrime

SpecExpiration == InitExpiration /\ [][NextExpiration]_vars

--------------------------------------------------------------------------
(* Claims about the expiration (checked under SpecExpiration).             *)

\* C15: a task and the same task with expiration e + 1 instead of e have
\* different pre-hash encodings (debugTaskCBOR differs), at every width
\* boundary of the integer encoder and at -1/0.
C15_ExpirationSensitive ==
    op = "debugTaskCBOR(t')" =>
        /\ ~ret.threw
        /\ local[1] # local[2]
        /\ local[3] # ret.str

\* the expirations 65535 and 65536 were told apart
C15_Witness ==
    /\ op = "debugTaskCBOR(t')"
    /\ arg[1].expiration_time = [neg |-> FALSE, bits |-> 0..15]
    /\ arg[2].expiration_time = [neg |-> FALSE, bits |-> {16}]
    /\ local[3] # ret.str

\* the expirations -1 and 0 were told apart
C15_WitnessZero ==
    /\ op = "debugTaskCBOR(t')"
    /\ arg[1].expiration_time = [neg |-> TRUE, bits |-> {0}]
    /\ arg[2].expiration_time = [neg |-> FALSE, bits |-> {}]
    /\ local[3] # ret.str

\* every boundary the claim names is among the expirations tried
C15_BoundariesTried ==
    {[neg |-> FALSE, bits |-> S] : S \in {BitsOf(23, 0), 0..7, 0..15, 0..31}}
        \cup {[neg |-> TRUE, bits |-> {0}]} \subseteq SteppedExpirations

--------------------------------------------------------------------------
(* The calls of encodeCBORByteString made inside the public pipelines.     *)

\* what one call of encodeCBORByteString (slt-hash.ts) was given and did
callRecord(buffer) ==
    LET r == encodeCBORByteString(buffer)
    IN  [len |-> Len(buffer), threw |-> r.threw, head |-> IF r.threw THEN 0 ELSE r.bytes[1]]

\* what one call of encodeCBORByteString (task-hash.ts) was given and did
callRecord_task(buffer) ==
    LET r == encodeCBORByteString_task(buffer)
    IN  [len |-> Len(buffer), threw |-> r.threw, head |-> IF r.threw THEN 0 ELSE r.bytes[1]]

\* the calls up to the first that throws: an exception ends the pipeline
untilThrow(calls) ==
    LET thrown == {k \in 1..Len(calls) : calls[k].threw}
    IN  IF thrown = {} THEN calls ELSE SubSeq(calls, 1, MinOf(thrown))

\* the calls of encodeCBORByteString that encodePlutusBuiltinByteString
\* (slt-hash.ts) makes: one with the buffer, or one per subarray of the loop
definiteCalls(buffer) ==
    IF Len(buffer) <= PLUTUS_CHUNK_SIZE THEN <<callRecord(buffer)>>
    ELSE LET n == (Len(buffer) + PLUTUS_CHUNK_SIZE - 1) \div PLUTUS_CHUNK_SIZE
         IN  [k \in 1..n |->
                 callRecord(subarray(buffer, (k - 1) * PLUTUS_CHUNK_SIZE,
                                     Min(k * PLUTUS_CHUNK_SIZE, Len(buffer))))]

\* the same for encodePlutusBuiltinByteString of task-hash.ts
definiteCalls_task(buffer) ==
    IF Len(buffer) <= PLUTUS_CHUNK_SIZE_task THEN <<callRecord_task(buffer)>>
    ELSE LET n == (Len(buffer) + PLUTUS_CHUNK_SIZE_task - 1) \div PLUTUS_CHUNK_SIZE_task
         IN  [k \in 1..n |->
                 callRecord_task(subarray(buffer, (k - 1) * PLUTUS_CHUNK_SIZE_task,
                                          Min(k * PLUTUS_CHUNK_SIZE_task, Len(buffer))))]

\* the calls made by computeSltHash(slts), in order
sltDefiniteCalls(slts) ==
    untilThrow(concatRange([k \in 1..Len(slts) |-> definiteCalls(TextEncoderEncode(slts[k]))],
                           1, Len(slts)))

\* the calls made by encodeTaskAsPlutusData(task), in order
taskDefiniteCalls(task) ==
    untilThrow(definiteCalls_task(TextEncoderEncode(task.project_content))
                 \o concatRange([k \in 1..Len(task.native_assets) |->
                                    definiteCalls_task(TextEncoderEncode(task.native_assets[k][1]))],
                                1, Len(task.native_assets)))

\* the byte length above which encodeCBORByteString throws, plus one
TooLargeLen == 65536

\* strings of 0 to 4096 bytes, 22 three-byte characters, and a string of
\* more than 65535 bytes
LargeStrings ==
    {Ascii(len) : len \in {0, 1, 23, 24, 63, 64, 65, 127, 128, 129, 255, 256, 257, 1000, 4096}}
        \cup {Repeat(<<8364>>, 22), Ascii(TooLargeLen)}

\* each string alone, and the shorter ones followed by a 65-byte string
LargeSltLists ==
    {<<s>> : s \in LargeStrings}
        \cup {<<s, Ascii(65)>> : s \in {q \in LargeStrings : Len(q) < TooLargeLen}}

LargeTasks ==
    {[project_content |-> s, expiration_time |-> [neg |-> FALSE, bits |-> {3, 4}],
      lovelace_amount |-> [neg |-> FALSE, bits |-> {0, 1, 2, 4}], native_assets |-> <<>>] :
        s \in LargeStrings}
      \cup
    {[project_content |-> OpenTask1, expiration_time |-> [neg |-> FALSE, bits |-> {3, 4}],
      lovelace_amount |-> [neg |-> FALSE, bits |-> {0, 1, 2, 4}],
      native_assets |-> <<<<s, [neg |-> FALSE, bits |-> {0}]>>>>] :
        s \in LargeStrings}

InitLarge ==
    /\ op = "idle"
    /\ \/ \E x \in LargeSltLists : arg = [pipeline |-> "slt", x |-> x]
       \/ \E x \in LargeTasks : arg = [pipeline |-> "task", x |-> x]
    /\ local = NoLocals
    /\ ret = Return(<<>>)

\* computeSltHash(slts)
CallComputeSltHashLarge ==
    /\ Idle
    /\ arg.pipeline = "slt"
    /\ op' = "computeSltHash"
    /\ local' = [calls |-> sltDefiniteCalls(arg.x), cborData |-> sltCborData(arg.x).bytes]
    /\ ret' = computeSltHash(arg.x)
    /\ UNCHANGED arg

\* computeTaskHash(task)
CallComputeTaskHashLarge ==
    /\ Idle
    /\ arg.pipeline = "task"
    /\ op' = "computeTaskHash"
    /\ local' = [calls |-> taskDefiniteCalls(arg.x),
                 cborData |-> encodeTaskAsPlutusData(arg.x).bytes]
    /\ ret' = computeTaskHash(arg.x)
    /\ UNCHANGED arg

\* debugTaskCBOR(task)
CallDebugTaskCBORLarge ==
    /\ Idle
    /\ arg.pipeline = "task"
    /\ op' = "debugTaskCBOR"
    /\ LET cborData == encodeTaskAsPlutusData(arg.x)
       IN  /\ local' = [calls |-> taskDefiniteCalls(arg.x), cborData |-> cborData.bytes]
           /\ ret' = IF cborData.threw THEN cborData
                     ELSE ReturnString(uint8ArrayToHex(cborData.bytes))
    /\ UNCHANGED arg

NextLarge ==
    \/ CallComputeSltHashLarge
    \/ CallComputeTaskHashLarge
    \/ CallDebugTaskCBORLarge

SpecLarge == InitLarge /\ [][NextLarge]_vars

--------------------------------------------------------------------------
(* Claims about long strings (checked under SpecLarge).                    *)

IsPipelineCall == op \in {"computeSltHash", "computeTaskHash", "debugTaskCBOR"}

\* the header of the first string written by the pipeline: the second byte
\* of an SLT array, the fourth byte of a task (after d8 79 9f)
FirstStringHeader ==
    IF op = "computeSltHash" THEN local.cborData[2] ELSE local.cborData[4]

\* C16: in computeSltHash, computeTaskHash and debugTaskCBOR every call of
\* the definite byte-string encoder receives at most 64 bytes, for strings
\* of any length (more than 65535 bytes included): the headers it emits
\* are 0x40+len (len <= 23) and 0x58, never 0x59, it never throws, and the
\* pipeline returns a result.
C16_EncodingTooLargeUnreachable ==
    IsPipelineCall =>
        /\ ~ret.threw
        /\ \A k \in 1..Len(local.calls) :
               /\ local.calls[k].len <= 64
               /\ ~local.calls[k].threw
               /\ local.calls[k].head =
                      (IF local.calls[k].len <= 23 THEN 64 + local.calls[k].len ELSE 88)
        /\ FirstStringHeader \in (64..88) \cup {95}

\* a string of more than 65535 bytes was hashed, in 1024 calls or more
C16_Witness ==
    /\ op = "computeSltHash"
    /\ Len(TextEncoderEncode(arg.x[1])) > 65535
    /\ Len(local.calls) >= 1024
    /\ ~ret.threw

\* an asset class of more than 65535 bytes was encoded
C16_WitnessAsset ==
    /\ op = "debugTaskCBOR"
    /\ Len(arg.x.native_assets) = 1
    /\ Len(arg.x.native_assets[1][1]) > 65535
    /\ ~ret.threw

--------------------------------------------------------------------------
(* encodeAsPlutusArray called on two lists of byte strings.                *)

\* 64 bytes, and the same followed by "a": 65 bytes whose slices are the
\* 64 bytes and "a"
Slice64 == Buf(64, 0)
Item65 == Slice64 \o <<97>>

\* "a", "b", "ab", the 64 bytes, the 65 bytes
ItemChoices == {<<97>>, <<98>>, <<97, 98>>, Slice64, Item65}

\* lists of 0..MaxSlts items
ItemLists == SeqsUpTo(ItemChoices, MaxSlts)

InitInjective ==
    /\ op = "idle"
    /\ arg \in ItemLists \X ItemLists
    /\ local = NoLocals
    /\ ret = Return(<<>>)

\* encodeAsPlutusArray(items1)
CallEncodeAsPlutusArray ==
    /\ Idle
    /\ op' = "encodeAsPlutusArray(items1)"
    /\ local' = <<encodeAsPlutusArray(arg[1])>>
    /\ ret' = encodeAsPlutusArray(arg[1])
    /\ UNCHANGED arg

\* then encodeAsPlutusArray(items2)
CallEncodeAsPlutusArrayOther ==
    /\ op = "encodeAsPlutusArray(items1)"
    /\ op' = "encodeAsPlutusArray(items2)"
    /\ local' = Append(local, encodeAsPlutusArray(arg[2]))
    /\ ret' = encodeAsPlutusArray(arg[2])
    /\ UNCHANGED arg

NextInjective ==
    \/ CallEncodeAsPlutusArray
    \/ CallEncodeAsPlutusArrayOther

SpecInjective == InitInjective /\ [][NextInjective]_vars

--------------------------------------------------------------------------
(* Claims about two SLT lists (checked under SpecInjective).               *)

\* C17: two lists of byte strings that differ in element count, element
\* order or an element's bytes have different encodings under
\* encodeAsPlutusArray.
C17_SltEncodingInjective ==
    op = "encodeAsPlutusArray(items2)" =>
        /\ ~local[1].threw /\ ~local[2].threw
        /\ arg[1] # arg[2] => local[1].bytes # local[2].bytes

\* ["ab"] and ["a", "b"] were told apart
C17_Witness ==
    /\ op = "encodeAsPlutusArray(items2)"
    /\ arg[1] = << <<97, 98>> >>
    /\ arg[2] = << <<97>>, <<98>> >>
    /\ local[1].bytes # local[2].bytes

\* a 65-byte item and its 64-byte and 1-byte slices were told apart
C17_WitnessSlices ==
    /\ op = "encodeAsPlutusArray(items2)"
    /\ arg[1] = <<Item65>>
    /\ arg[2] = <<Slice64, <<97>>>>
    /\ local[1].bytes # local[2].bytes

==========================================================================
